---------------------------- MODULE Spec2Model ----------------------------
(***************************************************************************)
(* Verification model of the NNCache (memory tier, on-disk log, policy     *)
(* codec) and of the distributed evaluation client of leela-zero.          *)
(*                                                                         *)
(*   src/src/NNCache.cpp            codec, insert, lookup, load_cachefile  *)
(*   src/src/Utils.h                Utils::bitstream                       *)
(*   src/src/DistributedNetwork.cpp client pool, reconnector               *)
(***************************************************************************)
EXTENDS Integers, Sequences, FiniteSets, TLC

(***************************************************************************)
(* Bounds of the model.                                                    *)
(***************************************************************************)

\* Board intersections.  The program is built with 361 (19x19); the codec is
\* written for any value.  From 18 on every encoding is at least 8 bits long
\* and a run of zeros can need the Z-then-X form, as with 361.
NUM_INTERSECTIONS == 18

\* Resolution of a policy value below one quantum: a policy value is the
\* integer p standing for the real number p / (2048 * SubQ).
SubQ == 2

\* NNCache::MIN_CACHE_COUNT, MAX_CACHE_COUNT and ENTRY_SIZE.  The program's
\* values are 6000, 150000 and 15000 (NNCache.h:50, 47, 71); the model keeps
\* their roles (MIN below MAX, ENTRY_SIZE a multiple of the 32 it is divided
\* by) at a size a cache of a few entries can reach.
MIN_CACHE_COUNT == 1
MAX_CACHE_COUNT == 3
ENTRY_SIZE == 64

\* A guard is written every GuardPeriod entries of the file index
\* (1024 in the program, NNCache.cpp:250).
GuardPeriod == 2

\* The largest size handed to the constructor and to resize.
MaxSize == 3

\* Calls per run.
MaxInserts == 3
MaxLookups == 1
MaxResizes == 1
MaxLoads == 1
MaxRestarts == 1

\* The numbers of bytes a truncation cuts off the file
TruncLens == { 1, 20 }

\* The server: connections clients open, replies a worker writes to one.
MaxConns == 3
MaxReplies == 1

\* The client: search threads, evaluate calls per thread, the threads asked
\* for (cfg_num_threads), servers on the list, sockets the servers accept.
NumThreads == 2
MaxCalls == 2
cfg_num_threads == 2
NumServers == 2
MaxSockets == 3

\* The feature planes of a position (one in the model)
INPUT_CHANNELS == 1

\* The RPCs made on one connection
MaxRpcs == 2

\* The bits of a std::uint64_t word of the bitstream (64), scaled down
WordBits == 3

\* The push_bits calls of one bitstream run
MaxPushes == 3

\* The insert calls of a run with results of the full board
MaxBoardInserts == 2

(***************************************************************************)
(* Small helpers.                                                          *)
(***************************************************************************)

Pow2(n) == 2 ^ n

Max(a, b) == IF a < b THEN b ELSE a

Range(s) == {s[i] : i \in DOMAIN s}

(***************************************************************************)
(* Utils::bitstream.  The stream is the sequence of its bits, bit k of the *)
(* stream at index k+1; the words behind it are zero-filled on growth, so  *)
(* a bit past size() reads as 0 whether it lies inside or outside the      *)
(* capacity.                                                               *)
(***************************************************************************)

\* bitstream::push_bits(count, value): the low `count` bits, LSB first.
push_bits(bits, count, value) ==
    bits \o [i \in 1..count |-> (value \div Pow2(i - 1)) % 2]

BitAt(bits, k) == IF k + 1 <= Len(bits) THEN bits[k + 1] ELSE 0

\* bitstream::read_bits(start_loc, count), for the counts the program uses
\* (8 and 10): bit start_loc + k of the stream has weight 2^k.
read_bits(bits, start_loc, count) ==
    LET b(k) == IF k < count THEN BitAt(bits, start_loc + k) * Pow2(k) ELSE 0
    IN  b(0) + b(1) + b(2) + b(3) + b(4) + b(5) + b(6) + b(7) + b(8) + b(9)

(***************************************************************************)
(* Utils::bitstream word by word, as Utils.h has it: _ptr is the sequence  *)
(* of its words, word i of the code at index i+1.  A word has WordBits     *)
(* bits; size_t and long long have the width of a word.                    *)
(***************************************************************************)

WordMod == Pow2(WordBits)

Words == 0..(WordMod - 1)

\* What `1LL << n` can give when n is the width of long long, which is
\* undefined: 0 (the bit is shifted out) or 1 (the count wraps to 0)
ShiftOutcomes == { 0, 1 }

\* 1LL << n
ShiftOne(n, ub) == IF n < WordBits THEN Pow2(n) ELSE ub

\* (1LL << n) - 1, as a size_t
LowMask(n, ub) == (ShiftOne(n, ub) - 1) % WordMod

RECURSIVE BitAnd(_, _, _)
\* a & b on words of n bits
BitAnd(a, b, n) ==
    IF n = 0 THEN 0
    ELSE (a % 2) * (b % 2) + 2 * BitAnd(a \div 2, b \div 2, n - 1)

RECURSIVE BitOr(_, _, _)
\* a | b on words of n bits
BitOr(a, b, n) ==
    IF n = 0 THEN 0
    ELSE Max(a % 2, b % 2) + 2 * BitOr(a \div 2, b \div 2, n - 1)

\* a << k and a >> k on a size_t, k below the width
Shl(a, k) == (a * Pow2(k)) % WordMod

Shr(a, k) == a \div Pow2(k)

\* bitstream(): _bitcount = 0, _capacity = 0, no words
EmptyBitstream == [_bitcount |-> 0, _capacity |-> 0, _ptr |-> << >>]

\* bitstream::expand(count)
expand(b, count) ==
    LET c == ((count + (WordBits - 1)) \div WordBits) * WordBits
    IN  IF b._capacity >= c THEN b
        ELSE [b EXCEPT !._capacity = c,
                       !._ptr = [i \in 1..(c \div WordBits) |->
                                    IF i <= b._capacity \div WordBits
                                    THEN b._ptr[i] ELSE 0]]

RECURSIVE PushLoop(_, _, _, _)
\* bitstream::push_bits: while (count > 0) { ... }
PushLoop(b, count, value, ub) ==
    IF ~(count > 0) THEN b
    ELSE LET room == WordBits - (b._bitcount % WordBits)
             bits_to_add == IF room > count THEN count ELSE room
             masked_value == BitAnd(value, LowMask(bits_to_add, ub), WordBits)
             w == b._bitcount \div WordBits + 1
             b2 == [b EXCEPT !._ptr[w] =
                                 BitOr(@, Shl(masked_value, b._bitcount % WordBits),
                                       WordBits),
                             !._bitcount = @ + bits_to_add]
         IN  PushLoop(b2, count - bits_to_add,
                      IF bits_to_add < WordBits THEN Shr(value, bits_to_add)
                      ELSE value,
                      ub)

\* bitstream::push_bits(count, value) of the word-level bitstream
WordPush(b, count, value, ub) ==
    PushLoop(IF b._bitcount + count > b._capacity
             THEN expand(b, b._bitcount + count * 2) ELSE b,
             count, value, ub)

RECURSIVE WordRead(_, _, _, _)
\* bitstream::read_bits(start_loc, count) of the word-level bitstream
WordRead(b, start_loc, count, ub) ==
    IF start_loc >= b._capacity THEN 0
    ELSE LET start_loc_offset == start_loc % WordBits
             word == b._ptr[start_loc \div WordBits + 1]
         IN  IF count > WordBits - start_loc_offset
             THEN BitOr(Shl(WordRead(b, start_loc + WordBits - start_loc_offset,
                                     count - WordBits + start_loc_offset, ub),
                            WordBits - start_loc_offset),
                        Shr(word, start_loc_offset), WordBits)
             ELSE BitAnd(Shr(word, start_loc_offset), LowMask(count, ub), WordBits)

(***************************************************************************)
(* The policy codec.                                                       *)
(***************************************************************************)

V_BASE == 0
Z_BASE == 64
X_BASE == 80

\* encode_table[18]: code, width, count
encode_table ==
    << [code |-> 4,  width |-> 4, count |-> 1 ],   \* V0
       [code |-> 0,  width |-> 3, count |-> 1 ],   \* V1
       [code |-> 12, width |-> 4, count |-> 2 ],   \* V2 ~ V3
       [code |-> 2,  width |-> 4, count |-> 4 ],   \* V4 ~ V7
       [code |-> 10, width |-> 4, count |-> 8 ],   \* V8 ~ V15
       [code |-> 6,  width |-> 4, count |-> 16],   \* V16 ~ V31
       [code |-> 14, width |-> 4, count |-> 32],   \* V32 ~ V63
       [code |-> 1,  width |-> 4, count |-> 1 ],   \* Z0
       [code |-> 9,  width |-> 4, count |-> 1 ],   \* Z1
       [code |-> 5,  width |-> 4, count |-> 2 ],   \* Z2 ~ Z3
       [code |-> 13, width |-> 4, count |-> 4 ],   \* Z4 ~ Z7
       [code |-> 3,  width |-> 4, count |-> 8 ],   \* Z8 ~ Z15
       [code |-> 11, width |-> 4, count |-> 1 ],   \* X0
       [code |-> 7,  width |-> 5, count |-> 1 ],   \* X1
       [code |-> 23, width |-> 5, count |-> 2 ],   \* X2 ~ X3
       [code |-> 15, width |-> 5, count |-> 4 ],   \* X4 ~ X7
       [code |-> 31, width |-> 6, count |-> 8 ],   \* X8 ~ X15
       [code |-> 63, width |-> 6, count |-> 16] >> \* X16 ~ X31

bit_log2(x) ==
    CASE x = 1  -> 0
      [] x = 2  -> 1
      [] x = 4  -> 2
      [] x = 8  -> 3
      [] x = 16 -> 4
      [] x = 32 -> 5
      [] x = 64 -> 6
      [] OTHER  -> 7

RECURSIVE EncodeEntry(_, _, _)
\* The loop of push_symbol from entry e on, symbol_base being the sum of the
\* counts before e: the first entry whose symbol range holds `symbol` (0 when
\* there is none, and then nothing is pushed).
EncodeEntry(symbol, e, symbol_base) ==
    IF e > Len(encode_table) THEN 0
    ELSE IF symbol >= symbol_base /\ symbol < symbol_base + encode_table[e].count
    THEN e
    ELSE EncodeEntry(symbol, e + 1, symbol_base + encode_table[e].count)

\* The value push_symbol hands to push_bits:
\* code | (symbol % count) << width
SymbolCode(symbol, entry) ==
    entry.code + (symbol % entry.count) * Pow2(entry.width)

\* The lambda push_symbol of CompressedEntry::CompressedEntry
push_symbol(bits, symbol) ==
    LET e == EncodeEntry(symbol, 1, 0)
    IN  IF e = 0 THEN bits
        ELSE push_bits(bits,
                       encode_table[e].width + bit_log2(encode_table[e].count),
                       SymbolCode(symbol, encode_table[e]))

\* static_cast<int>(r.policy[i] * 2048.0)
Quantum(p) == p \div SubQ

\* The inner while of the encoder: the number of consecutive entries from
\* iptr (1-based) on whose quantum is 0; it stops at the first entry that
\* is not zero, or at the end.
ZeroRun(policy, iptr) ==
    LET stops == { j \in iptr..Len(policy) : Quantum(policy[j]) # 0 }
    IN  IF stops = {} THEN Len(policy) + 1 - iptr
        ELSE (CHOOSE j \in stops : \A k \in stops : j <= k) - iptr

\* The symbols pushed for a run of `count` zeros
PushZeros(bits, count) ==
    IF count = 1 THEN push_symbol(bits, V_BASE)
    ELSE LET bias   == (count - 2) \div 16
             offset == (count - 2) % 16
             b1     == push_symbol(bits, offset + Z_BASE)
         IN  IF bias # 0 THEN push_symbol(b1, bias - 1 + X_BASE) ELSE b1

\* The symbols pushed for a value of quantum v # 0
PushValue(bits, v) ==
    LET bias   == v \div 64
        offset == v % 64
        b1     == push_symbol(bits, V_BASE + offset)
    IN  IF bias # 0 THEN push_symbol(b1, X_BASE + bias - 1) ELSE b1

\* The outer while of CompressedEntry::CompressedEntry stands at iptr
\* (1-based) at the start of one of its rounds: at the first entry, at an
\* entry that is not zero, and at the first entry of a run of zeros.
LoopHead(policy, iptr) ==
    \/ iptr = 1
    \/ Quantum(policy[iptr]) # 0
    \/ Quantum(policy[iptr - 1]) # 0

\* The bits one round of the outer while pushes when it starts at iptr;
\* none for an entry the inner while has passed.
RoundBits(policy, iptr) ==
    IF ~LoopHead(policy, iptr) THEN << >>
    ELSE IF Quantum(policy[iptr]) = 0
    THEN PushZeros(<< >>, ZeroRun(policy, iptr))
    ELSE PushValue(<< >>, Quantum(policy[iptr]))

RECURSIVE EncodeRange(_, _, _)
\* The bits of the rounds that start at the entries lo..hi, in order
EncodeRange(policy, lo, hi) ==
    IF lo > hi THEN << >>
    ELSE IF lo = hi THEN RoundBits(policy, lo)
    ELSE LET mid == (lo + hi) \div 2
         IN  EncodeRange(policy, lo, mid) \o EncodeRange(policy, mid + 1, hi)

\* The outer while of CompressedEntry::CompressedEntry, from iptr (1-based,
\* at the start of a round) with `bits` pushed so far
EncodeFrom(policy, iptr, bits) ==
    bits \o EncodeRange(policy, iptr, Len(policy))

\* NNCache::CompressedEntry::CompressedEntry(const Netresult&)
CompressedEntry(r) ==
    [policy_pass       |-> r.policy_pass,
     winrate           |-> r.winrate,
     compressed_policy |-> EncodeFrom(r.policy, 1, << >>)]

RECURSIVE DecodeEntry(_, _, _)
\* The loop over encode_table of get() and test_get() from entry e on: the
\* symbol of the first entry whose code equals the low `width` bits, and the
\* bits it takes.  With no matching entry the symbol stays 0 and iptr does
\* not move.
DecodeEntry(lower_bits, e, symbol_base) ==
    IF e > Len(encode_table) THEN [symbol |-> 0, used |-> 0]
    ELSE IF encode_table[e].code = lower_bits % Pow2(encode_table[e].width)
    THEN [symbol |-> symbol_base
                        + ((lower_bits \div Pow2(encode_table[e].width))
                              % encode_table[e].count),
          used   |-> encode_table[e].width + bit_log2(encode_table[e].count)]
    ELSE DecodeEntry(lower_bits, e + 1, symbol_base + encode_table[e].count)

\* uint64_t lower_bits = compressed_policy.read_bits(iptr, 10), then the loop
DecodeSymbol(bits, iptr) == DecodeEntry(read_bits(bits, iptr, 10), 1, 0)

\* The final test of get() and test_get() on size_t values:
\* iptr > size || iptr < size - 8, where size - 8 wraps around below 8.
UnexpectedSize(iptr, size) ==
    \/ iptr > size
    \/ IF size >= 8 THEN iptr < size - 8 ELSE TRUE

Zeros(n) == [i \in 1..n |-> 0]

RECURSIVE GetLoop(_, _, _, _)
\* The while loop of CompressedEntry::get; out holds the quanta written so
\* far (optr = Len(out)).
GetLoop(bits, iptr, prev_type, out) ==
    IF Len(out) >= NUM_INTERSECTIONS
    THEN IF UnexpectedSize(iptr, Len(bits))
         THEN [ok |-> FALSE, err |-> "Unexpected size", policy |-> out]
         ELSE [ok |-> TRUE, err |-> "", policy |-> out]
    ELSE LET d      == DecodeSymbol(bits, iptr)
             symbol == d.symbol
             next   == iptr + d.used
         IN  IF symbol < Z_BASE
             THEN GetLoop(bits, next, 0, Append(out, symbol))
             ELSE IF symbol < X_BASE
             THEN LET n == symbol - Z_BASE + 2
                  IN  IF Len(out) + n > NUM_INTERSECTIONS
                      THEN [ok |-> FALSE, err |-> "Buffer overflow", policy |-> out]
                      ELSE GetLoop(bits, next, 1, out \o Zeros(n))
             ELSE LET bias == symbol - X_BASE + 1
                  IN  IF prev_type = 0
                      THEN GetLoop(bits, next, -1,
                                   [out EXCEPT ![Len(out)] = @ + 64 * bias])
                      ELSE IF prev_type = 1
                      THEN IF Len(out) + bias * 16 > NUM_INTERSECTIONS
                           THEN [ok |-> FALSE, err |-> "Buffer overflow", policy |-> out]
                           ELSE GetLoop(bits, next, -1, out \o Zeros(bias * 16))
                      ELSE [ok |-> FALSE, err |-> "Didn't expect X type symbol",
                            policy |-> out]

\* The value get() stores for a quantum q: q / 2048.0
FromQuantum(q) == q * SubQ

\* NNCache::CompressedEntry::get(Netresult&): ok is FALSE when it throws.
get(ce) ==
    LET g == GetLoop(ce.compressed_policy, 0, -1, << >>)
    IN  [ok          |-> g.ok,
         err         |-> g.err,
         policy      |-> [i \in 1..Len(g.policy) |-> FromQuantum(g.policy[i])],
         policy_pass |-> ce.policy_pass,
         winrate     |-> ce.winrate]

RECURSIVE TestGetLoop(_, _, _, _)
\* The while loop of CompressedEntry::test_get: TRUE when it does not throw
TestGetLoop(bits, iptr, prev_type, optr) ==
    IF optr >= NUM_INTERSECTIONS
    THEN ~UnexpectedSize(iptr, Len(bits))
    ELSE LET d      == DecodeSymbol(bits, iptr)
             symbol == d.symbol
             next   == iptr + d.used
         IN  IF symbol < Z_BASE
             THEN TestGetLoop(bits, next, 0, optr + 1)
             ELSE IF symbol < X_BASE
             THEN IF optr + (symbol - Z_BASE + 2) > NUM_INTERSECTIONS
                  THEN FALSE
                  ELSE TestGetLoop(bits, next, 1, optr + (symbol - Z_BASE + 2))
             ELSE LET bias == symbol - X_BASE + 1
                  IN  IF prev_type = 0
                      THEN TestGetLoop(bits, next, -1, optr)
                      ELSE IF prev_type = 1
                      THEN IF optr + bias * 16 > NUM_INTERSECTIONS
                           THEN FALSE
                           ELSE TestGetLoop(bits, next, -1, optr + bias * 16)
                      ELSE FALSE

\* NNCache::CompressedEntry::test_get(): TRUE when it returns normally
test_get(ce) == TestGetLoop(ce.compressed_policy, 0, -1, 0)

(***************************************************************************)
(* State.                                                                  *)
(***************************************************************************)

VARIABLES
    cd_pc,      \* codec run: "input", "encoded" or "decoded"
    cd_r,       \* codec run: the Netresult handed to the encoder
    cd_ce,      \* codec run: the CompressedEntry built from cd_r
    cd_out,     \* codec run: what get() returned for cd_ce
    stream,     \* bitstream run: the bitstream [_bitcount, _capacity, _ptr]
    pushed,     \* bitstream run: the push_bits calls made, [count, value, at]
    readback,   \* bitstream run: the last read_bits call, [k, value]
    m_cache,                \* NNCache: hash -> Entry
    m_order,                \* NNCache: hashes in the order they were added
    m_size,                 \* NNCache: requested total size
    m_max_cache_size,       \* NNCache: cap of m_cache
    m_max_outfile_map_size, \* NNCache: cap of m_outfile_map
    m_outfile_map,          \* NNCache: hash -> offset of its record in the log
    m_filename,             \* NNCache: name of the log file, "" when none
    m_outfile,              \* NNCache: the writer [is_open, fail, buf]
    m_hits, m_file_hits, m_lookups, m_inserts,   \* NNCache: statistics
    disk,       \* the log file on disk [exists, bytes]
    hist,       \* history: the hashes handed to insert since construction,
                \*          << Resized >> once a resize followed an insert
    last,       \* history: the last insert or resize call
    lk,         \* history: the last lookup since `last`, and what it returned
    ld,         \* history: the load_cachefile call that just returned
    dmg,        \* history: the damage done to the file between two runs
    flog,       \* history: the records insert appended to the log
    calls,      \* history: calls made, per operation
    m_sockets,              \* client: the idle sockets, oldest first
    m_active_socket_count,  \* client: atomic counter of live sockets
    m_socket_mutex,         \* client: "free" or the holder of the pool mutex
    m_local_initialized,    \* client: a local evaluator is set up
    m_socket_initialized,   \* client: init_servers has run
    th,         \* client: per search thread, where its evaluate call stands
    rc,         \* client: where the reconnector thread stands
    task,       \* client: the asynchronous task of each thread
    net,        \* the network: "up", or "down" once every socket fails
    made,       \* the sockets opened so far
    srv,        \* NetServer::listen: [pc, socket, num_threads, conn]
    wire,       \* one connection: the bytes in flight and the blocks so far
    m_mutex,    \* NNCache: the reader-writer lock [readers, writer]
    busy,       \* NNCache: the call each thread is in, [pc, n], the counter
                \* value it holds in a register and the hits it returned
    ifs         \* load_cachefile: the input stream and the loops over it

codecVars == << cd_pc, cd_r, cd_ce, cd_out, stream, pushed, readback >>

cacheVars == << m_cache, m_order, m_size, m_max_cache_size, m_max_outfile_map_size,
                m_outfile_map, m_filename, m_outfile,
                m_hits, m_file_hits, m_lookups, m_inserts, disk >>

histVars == << hist, last, lk, ld, dmg, flog, calls >>

\* The distributed layer: the client's variables and the server's
clientVars == << m_sockets, m_active_socket_count, m_socket_mutex,
                 m_local_initialized, m_socket_initialized, th, rc, task, net, made,
                 srv, wire, m_mutex, busy, ifs >>

nonClientVars == << cd_pc, cd_r, cd_ce, cd_out, stream, pushed, readback,
                    m_cache, m_order, m_size, m_max_cache_size,
                    m_max_outfile_map_size, m_outfile_map, m_filename, m_outfile,
                    m_hits, m_file_hits, m_lookups, m_inserts, disk,
                    hist, last, lk, ld, dmg, flog, calls, srv, wire,
                    m_mutex, busy, ifs >>

vars == << cd_pc, cd_r, cd_ce, cd_out, stream, pushed, readback,
           m_cache, m_order, m_size, m_max_cache_size, m_max_outfile_map_size,
           m_outfile_map, m_filename, m_outfile,
           m_hits, m_file_hits, m_lookups, m_inserts, disk,
           hist, last, lk, ld, dmg, flog, calls,
           m_sockets, m_active_socket_count, m_socket_mutex,
           m_local_initialized, m_socket_initialized, th, rc, task, net, made,
           srv, wire, m_mutex, busy, ifs >>

(***************************************************************************)
(* Inputs.  A float32 is its four bytes in host (little-endian) order; a   *)
(* policy value p stands for p / (2048 * SubQ).                            *)
(***************************************************************************)

Floats == { << 0, 0, 0, 0 >>,           \* 0.0
            << 0, 0, 0, 63 >>,          \* 0.5
            << 255, 255, 127, 63 >> }   \* 0.99999994

One == 2048 * SubQ

\* Policy values: zero, a value below one quantum, small quanta, the
\* multiples of 64 and their neighbours, the largest quantum and 1.0.
PolicyValues ==
    { 0, 1, SubQ, 63 * SubQ + 1, 64 * SubQ, 65 * SubQ + 1, 1500 * SubQ,
      2047 * SubQ + 1, One }

\* The policy equal to fill everywhere but at a (v1) and at b (v2)
PolicyOf(a, v1, b, v2, fill) ==
    [i \in 1..NUM_INTERSECTIONS |->
        IF i = a THEN v1 ELSE IF i = b THEN v2 ELSE fill]

\* Two values anywhere among zeros (zero runs of every length before,
\* between and after them), and the policies with one value everywhere.
CodecPolicies ==
    UNION { { PolicyOf(a, v1, b, v2, 0) :
                 b \in a..NUM_INTERSECTIONS, v1 \in PolicyValues, v2 \in PolicyValues }
            : a \in 1..NUM_INTERSECTIONS }
    \cup { PolicyOf(1, v, 1, v, v) : v \in PolicyValues }

(***************************************************************************)
(* Hashes, results and file constants.  A 64-bit hash is its eight bytes   *)
(* in host order, as insert writes it.                                     *)
(***************************************************************************)

\* 0xffff'ffff'ffff'ffff
Sentinel == [i \in 1..8 |-> 255]

HashOf(b) == << b, 0, 0, 0, 0, 0, 0, 0 >>

H1 == HashOf(1)
H2 == HashOf(2)
H3 == HashOf(3)

Hashes == { H1, H2, H3, Sentinel }

\* start_header: sixteen 0xff
Guard == [i \in 1..16 |-> 255]

\* magic_number: "\xfeLNC"
Magic == << 254, 76, 78, 67 >>

CacheFile == "nncache"

RA == [policy |-> PolicyOf(1, 65 * SubQ + 1, 1, 0, 0),
       policy_pass |-> << 0, 0, 0, 63 >>, winrate |-> << 255, 255, 127, 63 >>]

RB == [policy |-> PolicyOf(3, SubQ, 3, 0, 0),
       policy_pass |-> << 0, 0, 0, 0 >>, winrate |-> << 0, 0, 0, 63 >>]

\* Results whose last policy entry is 64 quanta and 600 quanta
RC == [policy |-> PolicyOf(2, SubQ, NUM_INTERSECTIONS, 64 * SubQ, 0),
       policy_pass |-> << 0, 0, 0, 63 >>, winrate |-> << 0, 0, 0, 63 >>]

RD == [policy |-> PolicyOf(2, 5 * SubQ, NUM_INTERSECTIONS, 600 * SubQ, 0),
       policy_pass |-> << 0, 0, 0, 63 >>, winrate |-> << 0, 0, 0, 0 >>]

\* The board the program is built for.  insert and the encoder do not look
\* at the number of intersections; only on the full board can a compressed
\* policy come near 256 bytes.
FullBoard == 361

\* A policy of the full board: 106 entries of 2047 quanta (19 bits each),
\* then the quanta of d, then zeros (one run, 16 bits): 2030 bits and those
\* of d, which are 5 for 2 quanta and 9 for 32 quanta.
BoardPolicy(d) ==
    [i \in 1..FullBoard |->
        IF i <= 106 THEN 2047 * SubQ
        ELSE IF i <= 106 + Len(d) THEN d[i - 106] * SubQ
        ELSE 0]

BoardResult(d) ==
    [policy |-> BoardPolicy(d),
     policy_pass |-> << 0, 0, 0, 0 >>, winrate |-> << 0, 0, 0, 63 >>]

\* Compressed policies of 254, 255 and 256 bytes
BoardFills == { << >>, << 2 >>, << 32, 2 >> }

\* The (hash, result) pairs handed to insert; H1 comes with two results.
InsertArgs == { << H1, RA >>, << H1, RB >>, << H2, RB >>, << Sentinel, RA >> }

\* The pairs handed to insert by a run whose log is read back by the next.
ReloadArgs == { << H1, RA >>, << H2, RC >>, << H3, RD >> }

(***************************************************************************)
(* The writer m_outfile (std::ofstream): is_open(), the failbit/badbit of  *)
(* its state, and the bytes written but not yet handed to the file.        *)
(***************************************************************************)

\* A default-constructed stream: closed, and good()
FreshStream == [is_open |-> FALSE, fail |-> FALSE, buf |-> << >>]

\* good that does not look at the state of the stream
good_Always(f) == TRUE

good(f) == ~f.fail

\* m_outfile.close(): flushes; on a stream that is not open it sets failbit
CloseStream(f) ==
    IF f.is_open THEN [is_open |-> FALSE, fail |-> f.fail, buf |-> << >>]
    ELSE [f EXCEPT !.fail = TRUE]

\* The file once the bytes the writer still holds have reached it
Flushed(d, f) ==
    IF f.is_open /\ f.buf # << >>
    THEN [exists |-> TRUE, bytes |-> d.bytes \o f.buf]
    ELSE d

\* m_outfile.tellp() of a stream opened for appending, after a write
tellp(d, f) == Len(d.bytes) + Len(f.buf)

(***************************************************************************)
(* Records of the log.                                                     *)
(***************************************************************************)

\* The bytes insert writes for the compressed policy: one per 8 bits
PolicyBytes(bits) ==
    [k \in 1..((Len(bits) + 7) \div 8) |-> read_bits(bits, 8 * (k - 1), 8)]

\* hash, policy_pass, winrate, size byte, policy bytes
RecordBytes(hash, ce) ==
    LET pb == PolicyBytes(ce.compressed_policy)
    IN  hash \o ce.policy_pass \o ce.winrate \o << Len(pb) >> \o pb

\* What a read that runs past the end of the file leaves in its buffer: the
\* buffer is not written, so the value is whatever the variable held.  Two
\* outcomes are kept: a size byte of 0, and a size byte and policy bytes
\* that decode (those of a policy of one quantum everywhere); the hash is H1.
JunkPolicy == << 0, 0, 0, 0, 0, 0, 0 >>

Junk == [hash : { H1 }, vs : { << >>, JunkPolicy }]

\* The junk of a read that stays inside the file: never looked at
NoJunk == [hash |-> Sentinel, vs |-> << >>]

ByteAt(bytes, off, junk) == IF off < Len(bytes) THEN bytes[off + 1] ELSE junk

\* compressed_policy.push_bits(8, v) for each byte v of bs, in order: bit j
\* of byte k becomes bit 8 * (k - 1) + j of the stream
BytesToBits(bs) ==
    [n \in 1..(8 * Len(bs)) |->
        (bs[(n - 1) \div 8 + 1] \div Pow2((n - 1) % 8)) % 2]

\* NNCache::CompressedEntry::read(ifs, expected_hash) at offset pos of a file
\* holding `bytes`.  throw: the hash differs from the expected one.  failed:
\* the stream ran past the end of the file.
ReadRecord(bytes, pos, expected_hash, junk) ==
    LET hash_read == [i \in 1..8 |-> ByteAt(bytes, pos + i - 1, junk.hash[i])]
        pass      == [i \in 1..4 |-> ByteAt(bytes, pos + 8 + i - 1, 0)]
        win       == [i \in 1..4 |-> ByteAt(bytes, pos + 12 + i - 1, 0)]
        c         == ByteAt(bytes, pos + 16, Len(junk.vs))
        pb        == [k \in 1..c |->
                         ByteAt(bytes, pos + 17 + k - 1,
                                IF k <= Len(junk.vs) THEN junk.vs[k] ELSE 0)]
    IN  [throw  |-> expected_hash # Sentinel /\ hash_read # expected_hash,
         hash   |-> hash_read,
         entry  |-> [policy_pass |-> pass, winrate |-> win,
                     compressed_policy |-> BytesToBits(pb)],
         end    |-> pos + 17 + c,
         failed |-> pos + 17 + c > Len(bytes)]

\* The junk values that matter for a read at pos: one when the record lies
\* inside the file.
JunkAt(bytes, pos) ==
    IF pos + 17 <= Len(bytes) /\ pos + 17 + bytes[pos + 17] <= Len(bytes)
    THEN { NoJunk }
    ELSE Junk

RECURSIVE skip_guard_AtGuard(_, _)
\* skip_guard that stops in front of the guard it finds
skip_guard_AtGuard(bytes, pos) ==
    IF pos + 16 > Len(bytes) THEN -1
    ELSE IF \A i \in 1..16 : bytes[pos + i] = 255 THEN pos
    ELSE skip_guard_AtGuard(bytes, pos + 1)

RECURSIVE skip_guard(_, _)
\* skip_guard: the offset just after the first sixteen consecutive 0xff
\* bytes at or after pos, -1 when the file ends first.
skip_guard(bytes, pos) ==
    IF pos + 16 > Len(bytes) THEN -1
    ELSE IF \A i \in 1..16 : bytes[pos + i] = 255 THEN pos + 16
    ELSE skip_guard(bytes, pos + 1)

RECURSIVE ParseLog(_, _, _, _)
\* The two nested loops of load_cachefile from offset pos on; scanning says
\* whether the next step is skip_guard or reading a record.  The result is
\* the set of values m_outfile_map can end with: one, but for what the read
\* that meets the end of the file leaves in its buffers.
ParseLog(bytes, pos, scanning, map) ==
    IF scanning
    THEN LET g == skip_guard(bytes, pos)
         IN  IF g < 0 THEN { map } ELSE ParseLog(bytes, g, FALSE, map)
    ELSE IF JunkAt(bytes, pos) = { NoJunk }
    THEN LET rd == ReadRecord(bytes, pos, Sentinel, NoJunk)
         IN  IF test_get(rd.entry)
             THEN ParseLog(bytes, rd.end, FALSE, (rd.hash :> pos) @@ map)
             ELSE ParseLog(bytes, pos, TRUE, map)
    ELSE { LET rd == ReadRecord(bytes, pos, Sentinel, junk)
           IN  IF test_get(rd.entry) THEN (rd.hash :> pos) @@ map ELSE map
           : junk \in Junk }

(***************************************************************************)
(* NNCache.                                                                *)
(***************************************************************************)

\* The Entry insert builds with make_unique<Entry>(result) and lookup reads
\* back as entry->result.
Entry(r) == [result |-> r]

Without(f, k) == [x \in DOMAIN f \ {k} |-> f[x]]

EmptyMap == [x \in {} |-> 0]

\* size_t arithmetic wraps around; 2^20 stands for the program's 2^64.
SizeT(x) == x % Pow2(20)

\* The budget of resize: m_max_cache_size and m_max_outfile_map_size
ResizeCaps(size, file_backed) ==
    LET s0 == IF file_backed /\ size < MIN_CACHE_COUNT THEN MIN_CACHE_COUNT ELSE size
        s1 == IF file_backed
              THEN MIN_CACHE_COUNT + (s0 - MIN_CACHE_COUNT) \div 2
              ELSE s0
        s2 == IF file_backed /\ s1 > MAX_CACHE_COUNT THEN MAX_CACHE_COUNT ELSE s1
    IN  [cache |-> s2,
         map   |-> SizeT(SizeT(size - s2) * ENTRY_SIZE) \div 32]

\* TrimOrder that pops nothing
TrimOrder_None(order, cap) == order

\* while (m_order.size() > m_max_cache_size) pop the front: what stays
TrimOrder(order, cap) ==
    IF Len(order) > cap THEN SubSeq(order, Len(order) - cap + 1, Len(order))
    ELSE order

Restrict(f, keys) == [x \in keys |-> f[x]]

\* The subsets of the file index that repeated erase(begin()) can leave:
\* an unordered_map gives no order, so any `cap` of its keys may stay.
TrimmedMaps(map, cap) ==
    IF Cardinality(DOMAIN map) <= cap THEN { map }
    ELSE { Restrict(map, keep) :
             keep \in { k \in SUBSET DOMAIN map : Cardinality(k) = cap } }

\* EvictOrder with pop_back() in the place of pop_front()
EvictOrder_Back(order, cap) ==
    IF Len(order) > cap THEN SubSeq(order, 1, Len(order) - 1) ELSE order

\* if (m_order.size() > m_max_cache_size): the order after insert's eviction
EvictOrder(order, cap) == IF Len(order) > cap THEN Tail(order) ELSE order

\* EvictCache with m_order.back() in the place of m_order.front()
EvictCache_Newest(cache, order, cap) ==
    IF Len(order) > cap THEN Without(cache, order[Len(order)]) ELSE cache

\* if (m_order.size() > m_max_cache_size): the cache after insert's eviction
EvictCache(cache, order, cap) ==
    IF Len(order) > cap THEN Without(cache, Head(order)) ELSE cache

\* GoesToFile without the test of the size
GoesToFile_AnySize(hash, ce, f) ==
    /\ f.is_open
    /\ good(f)
    /\ hash # Sentinel

\* GoesToFile without the test of the hash
GoesToFile_AnyHash(hash, ce, f) ==
    /\ f.is_open
    /\ good(f)
    /\ (Len(ce.compressed_policy) + 7) \div 8 < 256

\* The test that sends an entry to the log as well (the four tests have no
\* side effect; the ones on the stream and the hash are listed first)
GoesToFile(hash, ce, f) ==
    /\ f.is_open
    /\ good(f)
    /\ hash # Sentinel
    /\ (Len(ce.compressed_policy) + 7) \div 8 < 256

NoEntry == [policy_pass |-> << >>, winrate |-> << >>, compressed_policy |-> << >>]

NoResult == [ok |-> FALSE, err |-> "none", policy |-> << >>,
             policy_pass |-> << >>, winrate |-> << >>]

NoCall == [op |-> "none", hash |-> << >>, r |-> NoResult, fresh |-> FALSE]

NoLookup == [done |-> FALSE, hash |-> << >>, found |-> FALSE, result |-> NoResult]

NoLoad == [done |-> FALSE, read_only |-> FALSE, ret |-> FALSE]

NoDamage == [done |-> FALSE, at |-> 0, len |-> 0, bytes |-> << >>]

NoCalls == [insert |-> 0, lookup |-> 0, resize |-> 0, load |-> 0, restart |-> 0]

\* The mark a resize leaves in hist
Resized == << >>

\* AlreadyCached that never finds the hash
AlreadyCached_Never(cache, hash) == FALSE

\* m_cache.find(hash) != m_cache.end()
AlreadyCached(cache, hash) == hash \in DOMAIN cache

\* How the m_outfile.write calls of one insert go: they all succeed (the
\* bytes stay in the stream buffer), or the buffer fills up during one of
\* them, the write to the file fails after `kept` bytes of the record and
\* the stream goes bad.
WriteOk == [ok |-> TRUE, kept |-> 0]

FailCuts == { 0, 9 }

WriteOutcomes == { WriteOk } \cup { [ok |-> FALSE, kept |-> k] : k \in FailCuts }

\* NNCache::insert(hash, result), its writes going as wr says
InsertWith(hash, result, wr) ==
    /\ IF AlreadyCached(m_cache, hash)
       THEN UNCHANGED << cacheVars, flog >>
       ELSE LET ce      == CompressedEntry(result)
                to_file == GoesToFile(hash, ce, m_outfile)
                pos     == tellp(disk, m_outfile)
                map1    == IF to_file THEN (hash :> pos) @@ m_outfile_map
                           ELSE m_outfile_map
                written == to_file /\ wr.ok
                guard   == written /\ Cardinality(DOMAIN map1) % GuardPeriod = 0
                record  == IF written THEN RecordBytes(hash, ce) ELSE << >>
                cache1  == (hash :> Entry(result)) @@ m_cache
                order1  == Append(m_order, hash)
            IN  /\ IF to_file /\ ~wr.ok
                   THEN /\ m_outfile' = [is_open |-> TRUE, fail |-> TRUE,
                                         buf |-> << >>]
                        /\ disk' = [exists |-> TRUE,
                                    bytes |-> disk.bytes \o m_outfile.buf
                                        \o SubSeq(RecordBytes(hash, ce), 1, wr.kept)]
                   ELSE /\ m_outfile' = [m_outfile EXCEPT
                                            !.buf = @ \o record
                                              \o (IF guard THEN Guard ELSE << >>)]
                        /\ disk' = disk
                /\ m_outfile_map' \in
                      IF to_file /\ Cardinality(DOMAIN map1) > m_max_outfile_map_size
                      THEN { Without(map1, victim) : victim \in DOMAIN map1 }
                      ELSE { map1 }
                /\ m_cache' = EvictCache(cache1, order1, m_max_cache_size)
                /\ m_order' = EvictOrder(order1, m_max_cache_size)
                /\ m_inserts' = m_inserts + 1
                /\ flog' = IF record # << >>
                           THEN Append(flog, [hash |-> SubSeq(record, 1, 8),
                                              pos |-> pos, len |-> Len(record),
                                              r |-> result, guard |-> guard])
                           ELSE flog
                /\ UNCHANGED << m_size, m_max_cache_size, m_max_outfile_map_size,
                                m_filename, m_hits, m_file_hits, m_lookups >>
    /\ hist' = IF hist # << >> /\ hist[1] = Resized THEN hist ELSE Append(hist, hash)
    /\ last' = [op |-> "insert", hash |-> hash, r |-> result,
                fresh |-> hash \notin DOMAIN m_cache]
    /\ lk' = NoLookup
    /\ ld' = NoLoad
    /\ calls' = [calls EXCEPT !.insert = @ + 1]
    /\ UNCHANGED << dmg, codecVars, clientVars >>

\* NNCache::insert(hash, result) on a disk that takes every write
Insert(hash, result) == InsertWith(hash, result, WriteOk)

\* What a reader that opens m_filename finds: the bytes that reached the
\* file, none when the name is empty or the file does not exist.
ReaderBytes == IF m_filename = "" \/ ~disk.exists THEN << >> ELSE disk.bytes

AsNetresult(g) ==
    [policy |-> g.policy, policy_pass |-> g.policy_pass, winrate |-> g.winrate]

\* NNCache::lookup(hash, result)
Lookup(hash) ==
    /\ m_lookups' = m_lookups + 1
    /\ IF hash \in DOMAIN m_cache
       THEN /\ m_hits' = m_hits + 1
            /\ lk' = [done |-> TRUE, hash |-> hash, found |-> TRUE,
                      result |-> m_cache[hash].result]
            /\ UNCHANGED m_file_hits
       ELSE IF hash \notin DOMAIN m_outfile_map
       THEN /\ lk' = [done |-> TRUE, hash |-> hash, found |-> FALSE,
                      result |-> NoResult]
            /\ UNCHANGED << m_hits, m_file_hits >>
       ELSE \E junk \in JunkAt(ReaderBytes, m_outfile_map[hash]) :
               LET rd == ReadRecord(ReaderBytes, m_outfile_map[hash], hash, junk)
                   g  == get(rd.entry)
               IN  IF rd.throw \/ ~g.ok
                   THEN /\ lk' = [done |-> TRUE, hash |-> hash, found |-> FALSE,
                                  result |-> NoResult]
                        /\ UNCHANGED << m_hits, m_file_hits >>
                   ELSE /\ m_file_hits' = m_file_hits + 1
                        /\ lk' = [done |-> TRUE, hash |-> hash, found |-> TRUE,
                                  result |-> AsNetresult(g)]
                        /\ UNCHANGED m_hits
    /\ calls' = [calls EXCEPT !.lookup = @ + 1]
    /\ UNCHANGED << m_cache, m_order, m_size, m_max_cache_size,
                    m_max_outfile_map_size, m_outfile_map, m_filename, m_outfile,
                    m_inserts, disk, hist, last, ld, dmg, flog,
                    codecVars, clientVars >>

\* The entries of m_cache that stay when m_order is cut down to `order`
KeepCache(cache, old_order, order) ==
    Restrict(cache, DOMAIN cache \ (Range(old_order) \ Range(order)))

\* NNCache::resize(size, reserve_filecache)
Resize(size, reserve_filecache) ==
    LET file_backed == \/ reserve_filecache
                       \/ good(m_outfile)
                       \/ DOMAIN m_outfile_map # {}
        caps        == ResizeCaps(size, file_backed)
        order1      == TrimOrder(m_order, caps.cache)
    IN  /\ m_size' = size
        /\ m_max_cache_size' = caps.cache
        /\ m_max_outfile_map_size' = caps.map
        /\ m_order' = order1
        /\ m_cache' = KeepCache(m_cache, m_order, order1)
        /\ m_outfile_map' \in TrimmedMaps(m_outfile_map, caps.map)
        /\ hist' = IF hist = << >> THEN hist ELSE << Resized >>
        /\ last' = [op |-> "resize", hash |-> << >>, r |-> NoResult,
                    fresh |-> FALSE, reserve |-> reserve_filecache]
        /\ lk' = NoLookup
        /\ ld' = NoLoad
        /\ calls' = [calls EXCEPT !.resize = @ + 1]
        /\ UNCHANGED << m_filename, m_outfile, m_hits, m_file_hits, m_lookups,
                        m_inserts, disk, dmg, flog, codecVars, clientVars >>

\* The outcomes of the test of the first four bytes: reading them from a
\* shorter file leaves b[] unset.
MagicOutcomes(bytes) ==
    IF Len(bytes) >= 4 THEN { SubSeq(bytes, 1, 4) = Magic } ELSE BOOLEAN

\* NNCache::load_cachefile(filename, read_only), filename = CacheFile
LoadCachefile(read_only) ==
    LET out0    == CloseStream(m_outfile)
        d0      == Flushed(disk, m_outfile)
        missing == ~d0.exists
        caps    == ResizeCaps(m_size, TRUE)
        order1  == TrimOrder(m_order, caps.cache)
    IN  /\ IF missing /\ read_only
           THEN /\ m_filename' = ""
                /\ m_outfile_map' = EmptyMap
                /\ m_outfile' = out0
                /\ disk' = d0
                /\ ld' = [done |-> TRUE, read_only |-> read_only, ret |-> FALSE]
                /\ UNCHANGED << m_cache, m_order, m_max_cache_size,
                                m_max_outfile_map_size, hist >>
           ELSE /\ m_max_cache_size' = caps.cache
                /\ m_max_outfile_map_size' = caps.map
                /\ m_order' = order1
                /\ m_cache' = KeepCache(m_cache, m_order, order1)
                /\ hist' = IF hist = << >> THEN hist ELSE << Resized >>
                /\ \E magic_ok \in (IF missing THEN { TRUE }
                                    ELSE MagicOutcomes(d0.bytes)) :
                      IF ~magic_ok
                      THEN /\ m_filename' = CacheFile
                           /\ m_outfile_map' = EmptyMap
                           /\ m_outfile' = out0
                           /\ disk' = d0
                           /\ ld' = [done |-> TRUE, read_only |-> read_only,
                                     ret |-> FALSE]
                      ELSE \E map1 \in (IF missing THEN { EmptyMap }
                                        ELSE ParseLog(d0.bytes, 4, TRUE, EmptyMap)) :
                              IF DOMAIN map1 = {} /\ read_only
                              THEN /\ m_filename' = ""
                                   /\ m_outfile_map' = EmptyMap
                                   /\ m_outfile' = out0
                                   /\ disk' = d0
                                   /\ ld' = [done |-> TRUE, read_only |-> read_only,
                                             ret |-> FALSE]
                              ELSE /\ m_filename' = CacheFile
                                   /\ m_outfile_map' = map1
                                   /\ m_outfile' =
                                         IF read_only THEN out0
                                         ELSE [is_open |-> TRUE, fail |-> FALSE,
                                               buf |-> (IF missing THEN Magic
                                                        ELSE << >>) \o Guard]
                                   /\ disk' = IF read_only THEN d0
                                              ELSE [exists |-> TRUE,
                                                    bytes |-> d0.bytes]
                                   /\ ld' = [done |-> TRUE, read_only |-> read_only,
                                             ret |-> TRUE]
        /\ lk' = NoLookup
        /\ calls' = [calls EXCEPT !.load = @ + 1]
        /\ UNCHANGED << m_size, m_hits, m_file_hits, m_lookups, m_inserts,
                        last, dmg, flog, codecVars, clientVars >>

\* The writer's buffer reaches the file (the stream buffer filled up).
Flush ==
    /\ m_outfile.is_open
    /\ m_outfile.buf # << >>
    /\ disk' = Flushed(disk, m_outfile)
    /\ m_outfile' = [m_outfile EXCEPT !.buf = << >>]
    /\ UNCHANGED << m_cache, m_order, m_size, m_max_cache_size,
                    m_max_outfile_map_size, m_outfile_map, m_filename,
                    m_hits, m_file_hits, m_lookups, m_inserts,
                    histVars, codecVars, clientVars >>

\* NNCache::NNCache(size): an empty cache of `size` entries with no log file.
CacheFresh(size) ==
    /\ m_cache = EmptyMap
    /\ m_order = << >>
    /\ m_size = size
    /\ m_max_cache_size = size
    /\ m_max_outfile_map_size = 0
    /\ m_outfile_map = EmptyMap
    /\ m_filename = ""
    /\ m_outfile = FreshStream
    /\ m_hits = 0
    /\ m_file_hits = 0
    /\ m_lookups = 0
    /\ m_inserts = 0

(***************************************************************************)
(* DistributedClientNetwork: the pool of sockets, the evaluate calls of    *)
(* the search threads and the reconnector thread.                          *)
(*                                                                         *)
(* A std::async task (the RPC of get_output_internal, the handshake of     *)
(* init_servers) is "running" until the network lets it finish, with a     *)
(* result ("ok") or an I/O error ("error").  The future of a timed-out     *)
(* task is destroyed on the way to the catch block: the destructor of a    *)
(* future made by std::async waits for the task.                           *)
(***************************************************************************)

Threads == 1..NumThreads

Reconnector == 0

\* (a + b - 1) / b on integers
CeilDiv(a, b) == (a + b - 1) \div b

IdleThread == [pc |-> "idle", socket |-> 0, via |-> "none", n |-> 0,
               selfcheck |-> FALSE, direct |-> FALSE]

\* The hash of the client's weights, and the hashes a server can send back
my_hash == "mine"

RemoteHashes == { "mine", "other" }

\* remote: the hash the server sent back in the handshake under way
IdleReconnector == [pc |-> "sleep", server |-> 0, i |-> 0, num_threads |-> 0,
                    remote |-> "none"]

\* initialize(playouts, serverlist, hash) was not called: no reconnector
NoReconnector == [pc |-> "off", server |-> 0, i |-> 0, num_threads |-> 0,
                  remote |-> "none"]

\* The sockets the calls in flight hold
CheckedOut == { t \in Threads : th[t].socket # 0 }

\* Evaluate that does not look at selfcheck
Evaluate_NoSelfcheck(t, selfcheck) ==
    /\ th[t].pc = "idle"
    /\ th[t].n < MaxCalls
    /\ (selfcheck \/ ~m_socket_initialized) => m_local_initialized
    /\ th' = [th EXCEPT ![t].pc = IF m_socket_initialized THEN "lock" ELSE "local",
                        ![t].via = "none",
                        ![t].n = @ + 1,
                        ![t].selfcheck = selfcheck,
                        ![t].direct = selfcheck \/ ~m_socket_initialized]
    /\ UNCHANGED << m_sockets, m_active_socket_count, m_socket_mutex,
                    m_local_initialized, m_socket_initialized, rc, task, net, made >>
    /\ UNCHANGED nonClientVars

\* get_output_internal(input_data, selfcheck) is called: with selfcheck, or
\* with no server initialized, it goes to the local evaluator at once.  The
\* two asserts (m_local_initialized) are the precondition of such a call.
\* direct records that the call took one of these two exits.
Evaluate(t, selfcheck) ==
    /\ th[t].pc = "idle"
    /\ th[t].n < MaxCalls
    /\ (selfcheck \/ ~m_socket_initialized) => m_local_initialized
    /\ th' = [th EXCEPT ![t].pc = IF selfcheck \/ ~m_socket_initialized
                                  THEN "local" ELSE "lock",
                        ![t].via = "none",
                        ![t].n = @ + 1,
                        ![t].selfcheck = selfcheck,
                        ![t].direct = selfcheck \/ ~m_socket_initialized]
    /\ UNCHANGED << m_sockets, m_active_socket_count, m_socket_mutex,
                    m_local_initialized, m_socket_initialized, rc, task, net, made >>
    /\ UNCHANGED nonClientVars

\* CheckOut that leaves the front socket in the queue
CheckOut_NoPop(t) ==
    /\ th[t].pc = "lock"
    /\ m_socket_mutex = "free"
    /\ IF m_sockets = << >>
       THEN /\ th' = [th EXCEPT ![t].pc = IF m_local_initialized THEN "local"
                                           ELSE "sleep"]
            /\ UNCHANGED task
       ELSE /\ th' = [th EXCEPT ![t].pc = "rpc", ![t].socket = Head(m_sockets)]
            /\ task' = [task EXCEPT ![t] = "running"]
    /\ UNCHANGED << m_sockets, m_active_socket_count, m_socket_mutex,
                    m_local_initialized, m_socket_initialized, rc, net, made >>
    /\ UNCHANGED nonClientVars

\* LOCK(m_socket_mutex, lock) ... lock.unlock(): the queue is empty, or its
\* front socket is taken and the RPC is started as an asynchronous task
CheckOut(t) ==
    /\ th[t].pc = "lock"
    /\ m_socket_mutex = "free"
    /\ IF m_sockets = << >>
       THEN /\ th' = [th EXCEPT ![t].pc = IF m_local_initialized THEN "local"
                                           ELSE "sleep"]
            /\ UNCHANGED << m_sockets, task >>
       ELSE /\ th' = [th EXCEPT ![t].pc = "rpc", ![t].socket = Head(m_sockets)]
            /\ m_sockets' = Tail(m_sockets)
            /\ task' = [task EXCEPT ![t] = "running"]
    /\ UNCHANGED << m_active_socket_count, m_socket_mutex, m_local_initialized,
                    m_socket_initialized, rc, net, made >>
    /\ UNCHANGED nonClientVars

\* f.wait_for(500ms) returns: the task is done (f.get() gives the output or
\* rethrows), or it is still running and std::exception is thrown
RpcWait(t) ==
    /\ th[t].pc = "rpc"
    /\ th' = [th EXCEPT ![t].pc = CASE task[t] = "ok"    -> "push"
                                    [] task[t] = "error" -> "catch"
                                    [] OTHER             -> "join"]
    /\ task' = [task EXCEPT ![t] = IF @ = "running" THEN @ ELSE "none"]
    /\ UNCHANGED << m_sockets, m_active_socket_count, m_socket_mutex,
                    m_local_initialized, m_socket_initialized, rc, net, made >>
    /\ UNCHANGED nonClientVars

\* ~future() of the timed-out task returns once the task has finished
FutureJoin(t) ==
    /\ th[t].pc = "join"
    /\ task[t] # "running"
    /\ th' = [th EXCEPT ![t].pc = "catch"]
    /\ task' = [task EXCEPT ![t] = "none"]
    /\ UNCHANGED << m_sockets, m_active_socket_count, m_socket_mutex,
                    m_local_initialized, m_socket_initialized, rc, net, made >>
    /\ UNCHANGED nonClientVars

\* CatchDrop that returns the socket to the queue
CatchDrop_PushBack(t) ==
    /\ th[t].pc = "catch"
    /\ m_active_socket_count > 0
    /\ m_active_socket_count' = m_active_socket_count - 1
    /\ m_sockets' = Append(m_sockets, th[t].socket)
    /\ th' = [th EXCEPT ![t].pc = IF m_local_initialized THEN "local" ELSE "sleep",
                        ![t].socket = 0]
    /\ UNCHANGED << m_socket_mutex, m_local_initialized,
                    m_socket_initialized, rc, task, net, made >>
    /\ UNCHANGED nonClientVars

\* CatchDrop without m_active_socket_count--
CatchDrop_NoDecrement(t) ==
    /\ th[t].pc = "catch"
    /\ th' = [th EXCEPT ![t].pc = IF m_local_initialized THEN "local" ELSE "sleep",
                        ![t].socket = 0]
    /\ UNCHANGED << m_sockets, m_active_socket_count, m_socket_mutex,
                    m_local_initialized, m_socket_initialized, rc, task, net, made >>
    /\ UNCHANGED nonClientVars

\* catch (...): assert(m_active_socket_count.load() > 0);
\* m_active_socket_count--; the socket is thrown away
CatchDrop(t) ==
    /\ th[t].pc = "catch"
    /\ IF m_active_socket_count > 0
       THEN /\ m_active_socket_count' = m_active_socket_count - 1
            /\ th' = [th EXCEPT ![t].pc = IF m_local_initialized THEN "local"
                                           ELSE "sleep",
                                ![t].socket = 0]
       ELSE /\ th' = [th EXCEPT ![t].pc = "assert"]
            /\ UNCHANGED m_active_socket_count
    /\ UNCHANGED << m_sockets, m_socket_mutex, m_local_initialized,
                    m_socket_initialized, rc, task, net, made >>
    /\ UNCHANGED nonClientVars

\* LOCK(m_socket_mutex, lock2); m_sockets.push_back(std::move(socket));
\* return {p, v}
CheckIn(t) ==
    /\ th[t].pc = "push"
    /\ m_socket_mutex = "free"
    /\ m_sockets' = Append(m_sockets, th[t].socket)
    /\ th' = [th EXCEPT ![t].pc = "idle", ![t].socket = 0, ![t].via = "remote"]
    /\ UNCHANGED << m_active_socket_count, m_socket_mutex, m_local_initialized,
                    m_socket_initialized, rc, task, net, made >>
    /\ UNCHANGED nonClientVars

\* return Network::get_output_internal(input_data, selfcheck)
LocalEval(t) ==
    /\ th[t].pc = "local"
    /\ th' = [th EXCEPT ![t].pc = IF m_local_initialized THEN "idle" ELSE "assert",
                        ![t].via = IF m_local_initialized THEN "local" ELSE "none"]
    /\ UNCHANGED << m_sockets, m_active_socket_count, m_socket_mutex,
                    m_local_initialized, m_socket_initialized, rc, task, net, made >>
    /\ UNCHANGED nonClientVars

\* sleep_for(1s); return get_output_internal(input_data, selfcheck)
SleepRetry(t) ==
    /\ th[t].pc = "sleep"
    /\ th' = [th EXCEPT ![t].pc = "lock"]
    /\ UNCHANGED << m_sockets, m_active_socket_count, m_socket_mutex,
                    m_local_initialized, m_socket_initialized, rc, task, net, made >>
    /\ UNCHANGED nonClientVars

\* ReconnectorWake with > in the place of <
ReconnectorWake_Above ==
    /\ rc.pc = "sleep"
    /\ m_active_socket_count > cfg_num_threads
    /\ rc' = [rc EXCEPT !.pc = "lock"]
    /\ UNCHANGED << m_sockets, m_active_socket_count, m_socket_mutex,
                    m_local_initialized, m_socket_initialized, th, task, net, made >>
    /\ UNCHANGED nonClientVars

\* The reconnector wakes up with m_active_socket_count < cfg_num_threads
ReconnectorWake ==
    /\ rc.pc = "sleep"
    /\ m_active_socket_count < cfg_num_threads
    /\ rc' = [rc EXCEPT !.pc = "lock"]
    /\ UNCHANGED << m_sockets, m_active_socket_count, m_socket_mutex,
                    m_local_initialized, m_socket_initialized, th, task, net, made >>
    /\ UNCHANGED nonClientVars

\* LOCK(m_socket_mutex, lock); init_servers: num_threads (size_t arithmetic)
ReconnectorLock ==
    /\ rc.pc = "lock"
    /\ m_socket_mutex = "free"
    /\ m_socket_mutex' = "reconnector"
    /\ rc' = [pc |-> "resolve", server |-> 1, i |-> 0,
              num_threads |->
                  SizeT(SizeT(cfg_num_threads - Len(m_sockets)) + NumServers - 1)
                      \div NumServers,
              remote |-> "none"]
    /\ UNCHANGED << m_sockets, m_active_socket_count, m_local_initialized,
                    m_socket_initialized, th, task, net, made >>
    /\ UNCHANGED nonClientVars

\* for (auto x : serverlist): resolver.resolve(query), break when it throws
Resolve ==
    /\ rc.pc = "resolve"
    /\ IF rc.server > NumServers
       THEN rc' = [rc EXCEPT !.pc = "unlock"]
       ELSE \E resolved \in BOOLEAN :
               rc' = [rc EXCEPT !.pc = IF resolved THEN "connect" ELSE "unlock",
                                !.i = 0]
    /\ UNCHANGED << m_sockets, m_active_socket_count, m_socket_mutex,
                    m_local_initialized, m_socket_initialized, th, task, net, made >>
    /\ UNCHANGED nonClientVars

\* for (i < num_threads): the handshake is started as an asynchronous task
ConnectStart ==
    /\ rc.pc = "connect"
    /\ IF rc.i < rc.num_threads
       THEN /\ rc' = [rc EXCEPT !.pc = "wait", !.remote = "none"]
            /\ task' = [task EXCEPT ![Reconnector] = "running"]
       ELSE /\ rc' = [rc EXCEPT !.pc = "resolve", !.server = @ + 1]
            /\ UNCHANGED task
    /\ UNCHANGED << m_sockets, m_active_socket_count, m_socket_mutex,
                    m_local_initialized, m_socket_initialized, th, net, made >>
    /\ UNCHANGED nonClientVars

\* f.wait_for(500ms) returns; after f.get():
\* m_sockets.emplace_back(std::move(socket)); m_active_socket_count++
ConnectWait ==
    /\ rc.pc = "wait"
    /\ IF task[Reconnector] = "ok"
       THEN /\ m_sockets' = Append(m_sockets, made + 1)
            /\ made' = made + 1
            /\ m_active_socket_count' = m_active_socket_count + 1
            /\ rc' = [rc EXCEPT !.pc = "connect", !.i = @ + 1]
       ELSE /\ rc' = IF task[Reconnector] = "error"
                     THEN [rc EXCEPT !.pc = "connect", !.i = @ + 1]
                     ELSE [rc EXCEPT !.pc = "join"]
            /\ UNCHANGED << m_sockets, made, m_active_socket_count >>
    /\ task' = [task EXCEPT ![Reconnector] = IF @ = "running" THEN @ ELSE "none"]
    /\ UNCHANGED << m_socket_mutex, m_local_initialized, m_socket_initialized,
                    th, net >>
    /\ UNCHANGED nonClientVars

\* ~future() of the timed-out handshake returns; catch (...): continue
ConnectJoin ==
    /\ rc.pc = "join"
    /\ task[Reconnector] # "running"
    /\ rc' = [rc EXCEPT !.pc = "connect", !.i = @ + 1]
    /\ task' = [task EXCEPT ![Reconnector] = "none"]
    /\ UNCHANGED << m_sockets, m_active_socket_count, m_socket_mutex,
                    m_local_initialized, m_socket_initialized, th, net, made >>
    /\ UNCHANGED nonClientVars

\* m_socket_initialized = true; the lock is released, sleep_for(1s)
ReconnectorUnlock ==
    /\ rc.pc = "unlock"
    /\ m_socket_mutex' = "free"
    /\ m_socket_initialized' = TRUE
    /\ rc' = IdleReconnector
    /\ UNCHANGED << m_sockets, m_active_socket_count, m_local_initialized,
                    th, task, net, made >>
    /\ UNCHANGED nonClientVars

\* connect_task that does not compare the hashes
connect_task_NoCompare(io, remote_hash) == io

\* The lambda connect_task of init_servers, given how its I/O went and the
\* hash read back: "ok" when it returns, "error" when it throws.
connect_task(io, remote_hash) ==
    IF io = "error" THEN "error"
    ELSE IF my_hash # remote_hash THEN "error"
    ELSE "ok"

\* The network lets a task finish: with its result while the servers answer
\* and a socket is left to open, with an I/O error at any time.
TaskFinish(o) ==
    /\ task[o] = "running"
    /\ \E outcome \in { "ok", "error" }, remote \in RemoteHashes :
          /\ outcome = "ok" => /\ net = "up"
                               /\ o = Reconnector => made < MaxSockets
          /\ (o # Reconnector \/ outcome = "error") => remote = my_hash
          /\ task' = [task EXCEPT ![o] = IF o = Reconnector
                                         THEN connect_task(outcome, remote)
                                         ELSE outcome]
          /\ rc' = IF o = Reconnector /\ outcome = "ok"
                   THEN [rc EXCEPT !.remote = remote]
                   ELSE rc
    /\ UNCHANGED << m_sockets, m_active_socket_count, m_socket_mutex,
                    m_local_initialized, m_socket_initialized, th, net, made >>
    /\ UNCHANGED nonClientVars

\* From here on every remote socket fails
NetDown ==
    /\ net = "up"
    /\ net' = "down"
    /\ UNCHANGED << m_sockets, m_active_socket_count, m_socket_mutex,
                    m_local_initialized, m_socket_initialized, th, rc, task, made >>
    /\ UNCHANGED nonClientVars

(***************************************************************************)
(* NetServer::listen: the accept loop and its worker threads.  A           *)
(* connection is "none" (not opened), "queued" (connected, waiting in the  *)
(* listen queue), "handshake" or "serving" (a worker thread owns it),      *)
(* "rejected" (shut down and closed by the accept loop) or "done" (its     *)
(* worker has left its loop).  written counts what the server wrote to it: *)
(* the hash and the replies.  The peer has the connection "open", has      *)
(* closed it ("closed": reads meet the end of the stream) or has reset it  *)
(* ("reset": every call on the socket fails).                              *)
(***************************************************************************)

Conns == 1..MaxConns

NoConn == [st |-> "none", peer |-> "open", written |-> 0]

\* No server in this process
NoServer == [pc |-> "off", socket |-> 0, num_threads |-> 0,
             conn |-> [c \in Conns |-> NoConn]]

\* The worker threads that are alive
Workers == { c \in Conns : srv.conn[c].st \in { "handshake", "serving" } }

\* Admits with > in the place of >=
Admits_OffByOne(v) == ~(v > cfg_num_threads)

\* if (v >= cfg_num_threads) { drop } : the connection gets a worker
Admits(v) == ~(v >= cfg_num_threads)

\* A client connects
PeerConnect(c) ==
    /\ srv.pc # "off"
    /\ srv.conn[c].st = "none"
    /\ srv' = [srv EXCEPT !.conn[c].st = "queued"]
    /\ UNCHANGED << m_sockets, m_active_socket_count, m_socket_mutex,
                    m_local_initialized, m_socket_initialized, th, rc, task, net, made >>
    /\ UNCHANGED << codecVars, cacheVars, histVars, wire, m_mutex, busy, ifs >>

\* A client closes or resets its end
PeerLeave(c, how) ==
    /\ srv.pc # "off"
    /\ srv.conn[c].st \in { "queued", "handshake", "serving" }
    /\ srv.conn[c].peer = "open"
    /\ srv' = [srv EXCEPT !.conn[c].peer = how]
    /\ UNCHANGED << m_sockets, m_active_socket_count, m_socket_mutex,
                    m_local_initialized, m_socket_initialized, th, rc, task, net, made >>
    /\ UNCHANGED << codecVars, cacheVars, histVars, wire, m_mutex, busy, ifs >>

\* acceptor.accept(socket)
Accept(c) ==
    /\ srv.pc = "accept"
    /\ srv.conn[c].st = "queued"
    /\ srv' = [srv EXCEPT !.pc = "decide", !.socket = c]
    /\ UNCHANGED << m_sockets, m_active_socket_count, m_socket_mutex,
                    m_local_initialized, m_socket_initialized, th, rc, task, net, made >>
    /\ UNCHANGED << codecVars, cacheVars, histVars, wire, m_mutex, busy, ifs >>

\* int v = num_threads++; then the connection is dropped (--num_threads,
\* shutdown, close, continue) or handed to a new worker thread.  On a
\* connection the peer has reset, remote_endpoint() throws: the catch of
\* listen ends the accept loop, and the socket is closed as it goes out of
\* scope.
Admit ==
    /\ srv.pc = "decide"
    /\ LET c == srv.socket
           v == srv.num_threads
       IN  IF ~Admits(v)
           THEN srv' = [srv EXCEPT
                           !.pc = IF srv.conn[c].peer = "reset" THEN "stopped"
                                  ELSE "accept",
                           !.socket = 0,
                           !.conn[c].st = "rejected"]
           ELSE IF srv.conn[c].peer = "reset"
           THEN srv' = [srv EXCEPT !.pc = "stopped", !.socket = 0,
                                   !.num_threads = v + 1,
                                   !.conn[c].st = "rejected"]
           ELSE srv' = [srv EXCEPT !.pc = "accept", !.socket = 0,
                                   !.num_threads = v + 1,
                                   !.conn[c].st = "handshake"]
    /\ UNCHANGED << m_sockets, m_active_socket_count, m_socket_mutex,
                    m_local_initialized, m_socket_initialized, th, rc, task, net, made >>
    /\ UNCHANGED << codecVars, cacheVars, histVars, wire, m_mutex, busy, ifs >>

\* The worker reads the client's hash and writes its own.  A failed read
\* throws in the thread, which nothing catches: the process terminates.
\* The read waits while the peer is there and sends nothing.
WorkerHandshake(c) ==
    /\ srv.pc # "terminated"
    /\ srv.conn[c].st = "handshake"
    /\ IF srv.conn[c].peer = "open"
       THEN srv' = [srv EXCEPT !.conn[c].st = "serving",
                               !.conn[c].written = @ + 1]
       ELSE srv' = [srv EXCEPT !.pc = "terminated"]
    /\ UNCHANGED << m_sockets, m_active_socket_count, m_socket_mutex,
                    m_local_initialized, m_socket_initialized, th, rc, task, net, made >>
    /\ UNCHANGED << codecVars, cacheVars, histVars, wire, m_mutex, busy, ifs >>

\* One turn of the worker's loop: a request is read, evaluated and
\* answered; when the read fails or meets the end of the stream the worker
\* leaves the loop and decrements num_threads.  Once listen has returned,
\* num_threads is a dangling reference: the write may or may not land.
WorkerServe(c) ==
    /\ srv.pc # "terminated"
    /\ srv.conn[c].st = "serving"
    /\ IF srv.conn[c].peer = "open"
       THEN /\ srv.conn[c].written < 1 + MaxReplies
            /\ srv' = [srv EXCEPT !.conn[c].written = @ + 1]
       ELSE \E n \in (IF srv.pc = "stopped"
                      THEN { srv.num_threads, srv.num_threads - 1 }
                      ELSE { srv.num_threads - 1 }) :
               srv' = [srv EXCEPT !.conn[c].st = "done", !.num_threads = n]
    /\ UNCHANGED << m_sockets, m_active_socket_count, m_socket_mutex,
                    m_local_initialized, m_socket_initialized, th, rc, task, net, made >>
    /\ UNCHANGED << codecVars, cacheVars, histVars, wire, m_mutex, busy, ifs >>

(***************************************************************************)
(* The threads of the program inside the operations of NNCache.  A thread  *)
(* is outside the cache ("idle"), waits for m_mutex ("lookup?", "insert?") *)
(* or is in the body of an operation, where it reads or modifies m_cache,  *)
(* m_order and m_outfile_map ("lookup", "insert", "resize", "load").       *)
(***************************************************************************)

FreeMutex == [readers |-> {}, writer |-> 0]

NoCacheCalls ==
    /\ m_mutex = FreeMutex
    /\ busy = [t \in Threads |-> [pc |-> "idle", n |-> 0, reg |-> 0,
                                   hits |-> 0, file_hits |-> 0]]

\* The operations that modify m_cache, m_order or m_outfile_map
Modifying == { "insert", "resize", "load" }

\* A thread calls lookup or insert and comes to its lock, or calls resize
\* or load_cachefile, which take no lock and start at once
CacheCall(t, what) ==
    /\ busy[t].pc = "idle"
    /\ busy[t].n < MaxCalls
    /\ busy' = [busy EXCEPT ![t].pc = CASE what = "lookup" -> "lookup?"
                                         [] what = "insert" -> "insert?"
                                         [] OTHER           -> what,
                             ![t].n  = @ + 1]
    /\ UNCHANGED << m_mutex, wire, m_sockets, m_active_socket_count,
                    m_socket_mutex, m_local_initialized, m_socket_initialized,
                    th, rc, task, net, made, srv, ifs >>
    /\ UNCHANGED << codecVars, cacheVars, histVars >>

\* RLOCK(m_mutex, lock) in lookup: granted while no writer holds the lock
ReadLock(t) ==
    /\ busy[t].pc = "lookup?"
    /\ m_mutex.writer = 0
    /\ m_mutex' = [m_mutex EXCEPT !.readers = @ \cup { t }]
    /\ busy' = [busy EXCEPT ![t].pc = "lookup"]
    /\ UNCHANGED << wire, m_sockets, m_active_socket_count,
                    m_socket_mutex, m_local_initialized, m_socket_initialized,
                    th, rc, task, net, made, srv, ifs >>
    /\ UNCHANGED << codecVars, cacheVars, histVars >>

\* WLOCK(m_mutex, lock) in insert: granted while nobody holds the lock
WriteLock(t) ==
    /\ busy[t].pc = "insert?"
    /\ m_mutex = FreeMutex
    /\ m_mutex' = [m_mutex EXCEPT !.writer = t]
    /\ busy' = [busy EXCEPT ![t].pc = "insert"]
    /\ UNCHANGED << wire, m_sockets, m_active_socket_count,
                    m_socket_mutex, m_local_initialized, m_socket_initialized,
                    th, rc, task, net, made, srv, ifs >>
    /\ UNCHANGED << codecVars, cacheVars, histVars >>

\* The operation returns; the lock, if the thread holds it, is released
CacheReturn(t) ==
    /\ busy[t].pc \in { "lookup", "insert", "resize", "load" }
    /\ m_mutex' = [readers |-> m_mutex.readers \ { t },
                   writer  |-> IF m_mutex.writer = t THEN 0 ELSE m_mutex.writer]
    /\ busy' = [busy EXCEPT ![t].pc = "idle"]
    /\ UNCHANGED << wire, m_sockets, m_active_socket_count,
                    m_socket_mutex, m_local_initialized, m_socket_initialized,
                    th, rc, task, net, made, srv, ifs >>
    /\ UNCHANGED << codecVars, cacheVars, histVars >>

(***************************************************************************)
(* The statistics of NNCache::lookup.  m_lookups, m_hits and m_file_hits   *)
(* are plain ints, and lookup increments them holding m_mutex in shared    *)
(* mode only: an increment is a load of the counter into a register and a  *)
(* store of the register plus one, and the loads and stores of the threads *)
(* inside lookup interleave.                                               *)
(***************************************************************************)

\* What lookup(hash) finds: the memory tier, the file tier, or nothing
LookupFinds(hash) ==
    IF hash \in DOMAIN m_cache THEN { "hit" }
    ELSE IF hash \notin DOMAIN m_outfile_map THEN { "miss" }
    ELSE { LET rd == ReadRecord(ReaderBytes, m_outfile_map[hash], hash, junk)
           IN  IF rd.throw \/ ~get(rd.entry).ok THEN "miss" ELSE "file_hit" :
           junk \in JunkAt(ReaderBytes, m_outfile_map[hash]) }

\* The counter a thread at pc is incrementing
StatCounter(pc) ==
    CASE pc \in { "lookup", "++m_lookups" }       -> m_lookups
      [] pc \in { "hit", "++m_hits" }             -> m_hits
      [] pc \in { "file_hit", "++m_file_hits" }   -> m_file_hits

StatsFrame ==
    /\ UNCHANGED << wire, m_sockets, m_active_socket_count,
                    m_socket_mutex, m_local_initialized, m_socket_initialized,
                    th, rc, task, net, made, srv, ifs >>
    /\ UNCHANGED << m_cache, m_order, m_size, m_max_cache_size,
                    m_max_outfile_map_size, m_outfile_map, m_filename, m_outfile,
                    m_inserts, disk >>
    /\ UNCHANGED << codecVars, histVars >>

\* The first half of ++m_lookups, ++m_hits or ++m_file_hits: the load
LoadCounter(t) ==
    /\ busy[t].pc \in { "lookup", "hit", "file_hit" }
    /\ busy' = [busy EXCEPT ![t].reg = StatCounter(busy[t].pc),
                             ![t].pc  = CASE busy[t].pc = "lookup"   -> "++m_lookups"
                                          [] busy[t].pc = "hit"      -> "++m_hits"
                                          [] busy[t].pc = "file_hit" -> "++m_file_hits"]
    /\ UNCHANGED << m_mutex, m_lookups, m_hits, m_file_hits >>
    /\ StatsFrame

\* ++m_lookups, the second half: the store
StoreLookups(t) ==
    /\ busy[t].pc = "++m_lookups"
    /\ m_lookups' = busy[t].reg + 1
    /\ busy' = [busy EXCEPT ![t].pc = "find"]
    /\ UNCHANGED << m_mutex, m_hits, m_file_hits >>
    /\ StatsFrame

\* m_cache.find(hash), m_outfile_map.find(hash) and the read of the record:
\* a miss returns false and lets go of the lock
Find(t, hash) ==
    /\ busy[t].pc = "find"
    /\ \E found \in LookupFinds(hash) :
          IF found = "miss"
          THEN /\ busy' = [busy EXCEPT ![t].pc = "idle"]
               /\ m_mutex' = [m_mutex EXCEPT !.readers = @ \ { t }]
          ELSE /\ busy' = [busy EXCEPT ![t].pc = found]
               /\ UNCHANGED m_mutex
    /\ UNCHANGED << m_lookups, m_hits, m_file_hits >>
    /\ StatsFrame

\* ++m_hits or ++m_file_hits, the second half, and return true
StoreHits(t) ==
    /\ busy[t].pc \in { "++m_hits", "++m_file_hits" }
    /\ IF busy[t].pc = "++m_hits"
       THEN /\ m_hits' = busy[t].reg + 1
            /\ busy' = [busy EXCEPT ![t].pc = "idle", ![t].hits = @ + 1]
            /\ UNCHANGED m_file_hits
       ELSE /\ m_file_hits' = busy[t].reg + 1
            /\ busy' = [busy EXCEPT ![t].pc = "idle", ![t].file_hits = @ + 1]
            /\ UNCHANGED m_hits
    /\ m_mutex' = [m_mutex EXCEPT !.readers = @ \ { t }]
    /\ UNCHANGED m_lookups
    /\ StatsFrame

(***************************************************************************)
(* load_cachefile, loop by loop.  ifs is the std::ifstream of the call:    *)
(* pos is its read position, good its state; start is the position the    *)
(* round in progress began its scan at and rounds the number of rounds     *)
(* begun.  pc is "closed" before the call, "guard" at the head of the      *)
(* outer loop, "record" at the head of the inner loop, "tail" behind the   *)
(* loops and "done" when the call has returned.                            *)
(***************************************************************************)

NoIfstream == [pc |-> "closed", pos |-> 0, good |-> FALSE, read_only |-> FALSE,
               start |-> -1, rounds |-> 0]

ScanFrame ==
    /\ UNCHANGED << m_sockets, m_active_socket_count, m_socket_mutex,
                    m_local_initialized, m_socket_initialized, th, rc, task, net,
                    made, srv, wire, m_mutex, busy >>
    /\ UNCHANGED << m_size, m_hits, m_file_hits, m_lookups, m_inserts,
                    hist, last, lk, dmg, flog, calls, codecVars >>

\* load_cachefile(filename, read_only) on a file that exists, down to the
\* check of the magic number
ScanOpen(read_only) ==
    LET caps   == ResizeCaps(m_size, TRUE)
        order1 == TrimOrder(m_order, caps.cache)
    IN  /\ ifs.pc = "closed"
        /\ disk.exists
        /\ m_outfile_map' = EmptyMap
        /\ m_outfile' = CloseStream(m_outfile)
        /\ disk' = Flushed(disk, m_outfile)
        /\ m_filename' = CacheFile
        /\ m_max_cache_size' = caps.cache
        /\ m_max_outfile_map_size' = caps.map
        /\ m_order' = order1
        /\ m_cache' = KeepCache(m_cache, m_order, order1)
        /\ \E magic_ok \in MagicOutcomes(disk'.bytes) :
              IF magic_ok
              THEN /\ ifs' = [pc |-> "guard", pos |-> 4,
                              good |-> Len(disk'.bytes) >= 4,
                              read_only |-> read_only, start |-> -1, rounds |-> 0]
                   /\ UNCHANGED ld
              ELSE /\ ifs' = [ifs EXCEPT !.pc = "done", !.read_only = read_only]
                   /\ ld' = [done |-> TRUE, read_only |-> read_only, ret |-> FALSE]
        /\ ScanFrame

\* while (ifs.good()) { skip_guard(); ...: one round begins, or the loop ends
ScanGuard ==
    /\ ifs.pc = "guard"
    /\ IF ~ifs.good
       THEN ifs' = [ifs EXCEPT !.pc = "tail"]
       ELSE LET g == skip_guard(disk.bytes, ifs.pos)
            IN  ifs' = [ifs EXCEPT !.pc     = "record",
                                   !.pos    = IF g < 0 THEN Len(disk.bytes) ELSE g,
                                   !.good   = g >= 0,
                                   !.start  = ifs.pos,
                                   !.rounds = @ + 1]
    /\ UNCHANGED << m_cache, m_order, m_max_cache_size, m_max_outfile_map_size,
                    m_outfile_map, m_filename, m_outfile, disk, ld >>
    /\ ScanFrame

\* while (ifs.good()) { pos = ifs.tellg(); try { e.read(ifs); e.test_get();
\* m_outfile_map[hash] = pos; } catch (...) { ifs.seekg(pos); break; } }: one
\* record.  A read past the end of the file leaves the stream failed, and
\* seekg on a failed stream does not move it.
ScanRecord ==
    /\ ifs.pc = "record"
    /\ IF ~ifs.good
       THEN /\ ifs' = [ifs EXCEPT !.pc = "guard"]
            /\ UNCHANGED m_outfile_map
       ELSE \E junk \in JunkAt(disk.bytes, ifs.pos) :
               LET rd == ReadRecord(disk.bytes, ifs.pos, Sentinel, junk)
                   ok == test_get(rd.entry)
               IN  /\ m_outfile_map' = IF ok THEN (rd.hash :> ifs.pos) @@ m_outfile_map
                                              ELSE m_outfile_map
                   /\ ifs' = [ifs EXCEPT
                                !.pc   = IF ok THEN "record" ELSE "guard",
                                !.pos  = IF rd.failed THEN Len(disk.bytes)
                                         ELSE IF ok THEN rd.end ELSE ifs.pos,
                                !.good = ~rd.failed]
    /\ UNCHANGED << m_cache, m_order, m_max_cache_size, m_max_outfile_map_size,
                    m_filename, m_outfile, disk, ld >>
    /\ ScanFrame

\* load_cachefile behind the loops: the writer is opened and the guard
\* written, or a read-only call that loaded nothing gives up
ScanTail ==
    /\ ifs.pc = "tail"
    /\ ifs' = [ifs EXCEPT !.pc = "done"]
    /\ IF DOMAIN m_outfile_map = {} /\ ifs.read_only
       THEN /\ m_filename' = ""
            /\ ld' = [done |-> TRUE, read_only |-> TRUE, ret |-> FALSE]
            /\ UNCHANGED m_outfile
       ELSE /\ m_outfile' = IF ifs.read_only THEN m_outfile
                            ELSE [is_open |-> TRUE, fail |-> FALSE, buf |-> Guard]
            /\ ld' = [done |-> TRUE, read_only |-> ifs.read_only, ret |-> TRUE]
            /\ UNCHANGED m_filename
    /\ UNCHANGED << m_cache, m_order, m_max_cache_size, m_max_outfile_map_size,
                    m_outfile_map, disk >>
    /\ ScanFrame

(***************************************************************************)
(* The evaluation protocol on one connection: get_output_from_socket on    *)
(* the client's side, the loop of the worker on the server's.  c2s and s2c *)
(* are the bytes and the floats in flight; sent, read, wrote and got are   *)
(* the inputs handed to the client, the blocks the worker read, the        *)
(* blocks it wrote and the results the client returned.  A float is the    *)
(* number it holds.                                                        *)
(***************************************************************************)

\* std::array<char, INPUT_CHANNELS * NUM_INTERSECTIONS> buf
RequestBytes == INPUT_CHANNELS * NUM_INTERSECTIONS

\* std::array<float, NUM_INTERSECTIONS+2> obuf
ResponseFloats == NUM_INTERSECTIONS + 2

\* The sizes of the input_data a caller hands over: the size the worker
\* reads, and the size the assert of get_output_from_socket asks for
InputSizes == { RequestBytes, RequestBytes + 1 }

\* Feature planes of 0/1 indicators: all 0, all 1, and a lone 1 in front
Inputs ==
    UNION { { [i \in 1..size |-> b] : b \in { 0, 1 } }
            \cup { [i \in 1..size |-> IF i = 1 THEN 1 ELSE 0] }
            : size \in InputSizes }

\* std::copy(begin(input_data), end(input_data), begin(input_data_ch)):
\* float to char
ToChars(input_data) == [i \in DOMAIN input_data |-> input_data[i] % 256]

\* std::copy(begin(buf), end(buf), begin(input_data)): char to float
ToFloats(buf) == [i \in DOMAIN buf |-> buf[i]]

\* m_net.get_output_internal(input_data, false): the policy values and
\* policy_pass in first, the winrate in second, here a function of the
\* features that tells the inputs apart.
NetEval(input_data) ==
    [first  |-> [i \in 1..(NUM_INTERSECTIONS + 1) |->
                    IF i <= NUM_INTERSECTIONS THEN input_data[i]
                    ELSE 5 + input_data[1]],
     second |-> 7 + input_data[RequestBytes]]

\* std::copy(begin(result.first), end(result.first), begin(obuf));
\* obuf[NUM_INTERSECTIONS+1] = result.second
ResponseBlock(result) ==
    [i \in 1..ResponseFloats |->
        IF i = ResponseFloats THEN result.second
        ELSE IF i <= Len(result.first) THEN result.first[i]
        ELSE 0]

\* std::vector<float> p(NUM_INTERSECTIONS + 1); std::copy(begin(output_data_f),
\* begin(output_data_f) + NUM_INTERSECTIONS, begin(p));
\* v = output_data_f[NUM_INTERSECTIONS + 1]; return {p, v}
Unpack(output_data_f) ==
    [first  |-> [i \in 1..(NUM_INTERSECTIONS + 1) |->
                    IF i <= NUM_INTERSECTIONS THEN output_data_f[i] ELSE 0],
     second |-> output_data_f[NUM_INTERSECTIONS + 2]]

NoWire == [pc |-> "off", ndebug |-> FALSE, c2s |-> << >>, s2c |-> << >>,
           sent |-> << >>, read |-> << >>, wrote |-> << >>, got |-> << >>]

\* get_output_from_socket up to boost::asio::write: the assert (in a build
\* that has asserts), then input_data.size() bytes are written
WireWrite(input_data) ==
    /\ wire.pc = "idle"
    /\ Len(wire.sent) < MaxRpcs
    /\ IF ~wire.ndebug /\ Len(input_data) # RequestBytes + 1
       THEN wire' = [wire EXCEPT !.pc = "assert"]
       ELSE wire' = [wire EXCEPT !.pc = "reading",
                                 !.c2s = @ \o ToChars(input_data),
                                 !.sent = Append(@, input_data)]
    /\ UNCHANGED << m_sockets, m_active_socket_count, m_socket_mutex,
                    m_local_initialized, m_socket_initialized, th, rc, task,
                    net, made, srv >>
    /\ UNCHANGED << codecVars, cacheVars, histVars, m_mutex, busy, ifs >>

\* One turn of the worker's loop: boost::asio::read fills buf, the
\* evaluator runs, obuf is written
WireServe ==
    /\ wire.pc # "off"
    /\ Len(wire.c2s) >= RequestBytes
    /\ LET buf  == SubSeq(wire.c2s, 1, RequestBytes)
           obuf == ResponseBlock(NetEval(ToFloats(buf)))
       IN  wire' = [wire EXCEPT
                       !.c2s = SubSeq(@, RequestBytes + 1, Len(@)),
                       !.read = Append(@, buf),
                       !.wrote = Append(@, obuf),
                       !.s2c = @ \o obuf]
    /\ UNCHANGED << m_sockets, m_active_socket_count, m_socket_mutex,
                    m_local_initialized, m_socket_initialized, th, rc, task,
                    net, made, srv >>
    /\ UNCHANGED << codecVars, cacheVars, histVars, m_mutex, busy, ifs >>

\* boost::asio::read fills output_data_f, get_output_internal unpacks it
WireRead ==
    /\ wire.pc = "reading"
    /\ Len(wire.s2c) >= ResponseFloats
    /\ wire' = [wire EXCEPT
                    !.pc = "idle",
                    !.s2c = SubSeq(@, ResponseFloats + 1, Len(@)),
                    !.got = Append(@, Unpack(SubSeq(wire.s2c, 1, ResponseFloats)))]
    /\ UNCHANGED << m_sockets, m_active_socket_count, m_socket_mutex,
                    m_local_initialized, m_socket_initialized, th, rc, task,
                    net, made, srv >>
    /\ UNCHANGED << codecVars, cacheVars, histVars, m_mutex, busy, ifs >>

\* No client: the state of the client variables in the runs of the cache
ClientIdle ==
    /\ m_sockets = << >>
    /\ m_active_socket_count = 0
    /\ m_socket_mutex = "free"
    /\ m_local_initialized = TRUE
    /\ m_socket_initialized = FALSE
    /\ th = [t \in Threads |-> IdleThread]
    /\ rc = IdleReconnector
    /\ task = [o \in Threads \cup { Reconnector } |-> "none"]
    /\ net = "up"
    /\ made = 0
    /\ srv = NoServer
    /\ wire = NoWire
    /\ NoCacheCalls
    /\ ifs = NoIfstream

NoHistory ==
    /\ hist = << >>
    /\ last = NoCall
    /\ lk = NoLookup
    /\ ld = NoLoad
    /\ dmg = NoDamage
    /\ flog = << >>
    /\ calls = NoCalls

Sizes == MIN_CACHE_COUNT..MaxSize

NoRead == [k |-> 0, value |-> 0]

BitsIdle ==
    /\ stream = EmptyBitstream
    /\ pushed = << >>
    /\ readback = NoRead

CodecIdle ==
    /\ cd_pc = "off"
    /\ cd_r = NoResult
    /\ cd_ce = NoEntry
    /\ cd_out = NoResult
    /\ BitsIdle

Init ==
    /\ \E size \in Sizes : CacheFresh(size)
    /\ disk = [exists |-> FALSE, bytes |-> << >>]
    /\ NoHistory
    /\ CodecIdle
    /\ ClientIdle

Next ==
    \/ \E a \in InsertArgs : calls.insert < MaxInserts /\ Insert(a[1], a[2])
    \/ \E h \in Hashes : calls.lookup < MaxLookups /\ Lookup(h)
    \/ \E size \in Sizes, reserve \in BOOLEAN :
          calls.resize < MaxResizes /\ Resize(size, reserve)
    \/ \E read_only \in BOOLEAN : calls.load < MaxLoads /\ LoadCachefile(read_only)
    \/ Flush

Spec == Init /\ [][Next]_vars

(***************************************************************************)
(* The cache fed with results of the full board whose compressed policies  *)
(* are about 256 bytes long.                                               *)
(***************************************************************************)

BoardResults == { BoardResult(d) : d \in BoardFills }

BoardInit ==
    /\ CacheFresh(MaxSize)
    /\ disk = [exists |-> FALSE, bytes |-> << >>]
    /\ NoHistory
    /\ CodecIdle
    /\ ClientIdle

BoardNext ==
    \/ \E h \in { H1, H2 }, r \in BoardResults :
          calls.insert < MaxBoardInserts /\ Insert(h, r)
    \/ calls.load < MaxLoads /\ LoadCachefile(FALSE)
    \/ Flush

SpecBoard == BoardInit /\ [][BoardNext]_vars

(***************************************************************************)
(* Two runs of the program over one log file: the first writes it, the     *)
(* file may be damaged in between, the second loads it.                    *)
(***************************************************************************)

\* The process ends (the destructor of m_outfile closes the writer, which
\* flushes) and the next run constructs its cache; the file stays.
Restart ==
    /\ disk' = Flushed(disk, m_outfile)
    /\ m_cache' = EmptyMap
    /\ m_order' = << >>
    /\ m_max_cache_size' = m_size
    /\ m_max_outfile_map_size' = 0
    /\ m_outfile_map' = EmptyMap
    /\ m_filename' = ""
    /\ m_outfile' = FreshStream
    /\ m_hits' = 0
    /\ m_file_hits' = 0
    /\ m_lookups' = 0
    /\ m_inserts' = 0
    /\ hist' = << >>
    /\ last' = NoCall
    /\ lk' = NoLookup
    /\ ld' = NoLoad
    /\ calls' = [calls EXCEPT !.restart = @ + 1, !.load = 0]
    /\ UNCHANGED << m_size, dmg, flog, codecVars, clientVars >>

\* The damages: the last n bytes cut off, or one byte overwritten (the
\* first byte of the file, or the first byte of the hash or the size byte
\* of a record).
Truncations == { [at |-> Len(disk.bytes) - n, len |-> n, v |-> -1] : n \in TruncLens }

Overwrites ==
    { [at |-> p, len |-> 1, v |-> v] :
        p \in { 0 } \cup { flog[i].pos : i \in DOMAIN flog }
                    \cup { flog[i].pos + 16 : i \in DOMAIN flog },
        v \in { 1, 255 } }

Damaged(bytes, d) ==
    IF d.v < 0 THEN SubSeq(bytes, 1, d.at)
    ELSE [bytes EXCEPT ![d.at + 1] = d.v]

\* Between the two runs the file is damaged
Damage(d) ==
    /\ calls.restart > 0
    /\ calls.load = 0
    /\ calls.insert > 0
    /\ ~dmg.done
    /\ disk.exists
    /\ d.at >= 0
    /\ d.at < Len(disk.bytes)
    /\ Damaged(disk.bytes, d) # disk.bytes
    /\ disk' = [disk EXCEPT !.bytes = Damaged(disk.bytes, d)]
    /\ dmg' = [done |-> TRUE, at |-> d.at, len |-> d.len, bytes |-> disk.bytes]
    /\ UNCHANGED << m_cache, m_order, m_size, m_max_cache_size,
                    m_max_outfile_map_size, m_outfile_map, m_filename, m_outfile,
                    m_hits, m_file_hits, m_lookups, m_inserts,
                    hist, last, lk, ld, flog, calls, codecVars, clientVars >>

ReloadInit ==
    /\ CacheFresh(MaxSize)
    /\ disk = [exists |-> FALSE, bytes |-> << >>]
    /\ NoHistory
    /\ CodecIdle
    /\ ClientIdle

ReloadNext ==
    \/ \E a \in ReloadArgs : calls.insert < MaxInserts /\ Insert(a[1], a[2])
    \/ \E h \in Hashes : calls.lookup < MaxLookups /\ Lookup(h)
    \/ \E read_only \in BOOLEAN : calls.load < MaxLoads /\ LoadCachefile(read_only)
    \/ Flush
    \/ calls.restart < MaxRestarts /\ Restart
    \/ \E d \in Truncations \cup Overwrites : Damage(d)

SpecReload == ReloadInit /\ [][ReloadNext]_vars

(***************************************************************************)
(* Two runs over one log file that nothing damages, with a cache of any    *)
(* size: the first run fills the log, the second loads it.                 *)
(***************************************************************************)

RefillNext ==
    \/ \E a \in ReloadArgs : calls.insert < MaxInserts /\ Insert(a[1], a[2])
    \/ \E read_only \in BOOLEAN : calls.load < MaxLoads /\ LoadCachefile(read_only)
    \/ Flush
    \/ calls.restart < MaxRestarts /\ Restart

SpecRefill == Init /\ [][RefillNext]_vars

\* The cache over a disk that can refuse a write: inserts whose writes go
\* either way, lookups, load_cachefile and flushes of the writer.
DiskArgs == { << H1, RA >>, << H2, RB >>, << H3, RB >> }

DiskNext ==
    \/ \E a \in DiskArgs, wr \in WriteOutcomes :
          calls.insert < MaxInserts /\ InsertWith(a[1], a[2], wr)
    \/ \E h \in Hashes : calls.lookup < MaxLookups /\ Lookup(h)
    \/ \E read_only \in BOOLEAN : calls.load < MaxLoads /\ LoadCachefile(read_only)
    \/ Flush

SpecDisk == Init /\ [][DiskNext]_vars

(***************************************************************************)
(* The threads of the program calling into one NNCache.                    *)
(***************************************************************************)

LockNext ==
    \/ \E t \in Threads, what \in { "lookup", "insert", "resize", "load" } :
          CacheCall(t, what)
    \/ \E t \in Threads : ReadLock(t)
    \/ \E t \in Threads : WriteLock(t)
    \/ \E t \in Threads : CacheReturn(t)

SpecLock == Init /\ [][LockNext]_vars

(***************************************************************************)
(* The threads of the program looking up positions in a cache that was     *)
(* filled before: in memory, behind a cache file, or both.                 *)
(***************************************************************************)

StatsHashes == { H1, H2, H3 }

\* The sum of a field of busy over the threads ts: the calls made ("n"),
\* the memory-tier hits ("hits") and the file-tier hits ("file_hits")
RECURSIVE Returned(_, _)
Returned(field, ts) ==
    IF ts = {} THEN 0
    ELSE LET t == CHOOSE u \in ts : TRUE
         IN  busy[t][field] + Returned(field, ts \ { t })

StatsNext ==
    \/ \E a \in DiskArgs :
          NoCacheCalls /\ calls.insert < MaxInserts /\ Insert(a[1], a[2])
    \/ NoCacheCalls /\ calls.load < MaxLoads /\ LoadCachefile(FALSE)
    \/ NoCacheCalls /\ Flush
    \/ \E t \in Threads :
          Returned("n", Threads) < MaxCalls /\ CacheCall(t, "lookup")
    \/ \E t \in Threads : ReadLock(t)
    \/ \E t \in Threads : LoadCounter(t)
    \/ \E t \in Threads : StoreLookups(t)
    \/ \E t \in Threads, hash \in StatsHashes : Find(t, hash)
    \/ \E t \in Threads : StoreHits(t)

SpecStats == Init /\ [][StatsNext]_vars

(***************************************************************************)
(* load_cachefile on a file of any contents: the magic number or less,     *)
(* then guards, records that decode, records that do not, a record cut     *)
(* short, 0xff bytes and other bytes, in any order.                        *)
(***************************************************************************)

MaxPieces == 4

GoodRecord == RecordBytes(H1, CompressedEntry(RA))

BadRecord == [RecordBytes(H2, CompressedEntry(RB)) EXCEPT ![18] = 255]

ScanPieces == { Guard, GoodRecord, BadRecord, SubSeq(GoodRecord, 1, 10),
                << 255 >>, << 7 >> }

ScanHeaders == { Magic, SubSeq(Magic, 1, 2) }

RECURSIVE Pieced(_)
\* The byte strings of at most n pieces
Pieced(n) ==
    IF n = 0 THEN { << >> }
    ELSE LET shorter == Pieced(n - 1)
         IN  shorter \cup { b \o piece : b \in shorter, piece \in ScanPieces }

ScanInit ==
    /\ CacheFresh(MaxSize)
    /\ \E header \in ScanHeaders, body \in Pieced(MaxPieces) :
          disk = [exists |-> TRUE, bytes |-> header \o body]
    /\ NoHistory
    /\ CodecIdle
    /\ ClientIdle

ScanNext ==
    \/ \E read_only \in BOOLEAN : ScanOpen(read_only)
    \/ ScanGuard
    \/ ScanRecord
    \/ ScanTail

SpecScan == ScanInit /\ [][ScanNext]_vars

(***************************************************************************)
(* One connection between a client and a server worker, in a build with    *)
(* or without asserts.                                                     *)
(***************************************************************************)

WireInit ==
    /\ wire \in { [NoWire EXCEPT !.pc = "idle", !.ndebug = d] : d \in BOOLEAN }
    /\ NoCacheCalls
    /\ ifs = NoIfstream
    /\ srv = NoServer
    /\ m_sockets = << >>
    /\ m_active_socket_count = 0
    /\ m_socket_mutex = "free"
    /\ m_local_initialized = TRUE
    /\ m_socket_initialized = TRUE
    /\ th = [t \in Threads |-> IdleThread]
    /\ rc = NoReconnector
    /\ task = [o \in Threads \cup { Reconnector } |-> "none"]
    /\ net = "up"
    /\ made = 0
    /\ CacheFresh(MIN_CACHE_COUNT)
    /\ disk = [exists |-> FALSE, bytes |-> << >>]
    /\ NoHistory
    /\ CodecIdle

WireNext ==
    \/ \E input_data \in Inputs : WireWrite(input_data)
    \/ WireServe
    \/ WireRead

SpecWire == WireInit /\ [][WireNext]_vars

(***************************************************************************)
(* The client alone: search threads calling evaluate, the reconnector and  *)
(* the network.                                                            *)
(***************************************************************************)

\* After initialize(playouts, serverlist, hash): init_servers has opened
\* between none and all of the connections it tried.
ClientInit ==
    /\ m_socket_initialized \in BOOLEAN
    /\ \E k \in 0..(CeilDiv(cfg_num_threads, NumServers) * NumServers) :
          /\ ~m_socket_initialized => k = 0
          /\ m_sockets = [i \in 1..k |-> i]
          /\ m_active_socket_count = k
          /\ made = k
    /\ m_socket_mutex = "free"
    /\ m_local_initialized \in BOOLEAN
    /\ m_local_initialized \/ m_socket_initialized
    /\ th = [t \in Threads |-> IdleThread]
    /\ rc = IF m_socket_initialized THEN IdleReconnector ELSE NoReconnector
    /\ task = [o \in Threads \cup { Reconnector } |-> "none"]
    /\ net = "up"
    /\ srv = NoServer
    /\ wire = NoWire
    /\ NoCacheCalls
    /\ ifs = NoIfstream
    /\ CacheFresh(MIN_CACHE_COUNT)
    /\ disk = [exists |-> FALSE, bytes |-> << >>]
    /\ NoHistory
    /\ CodecIdle

ClientNext ==
    \/ \E t \in Threads, selfcheck \in BOOLEAN : Evaluate(t, selfcheck)
    \/ \E t \in Threads : CheckOut(t)
    \/ \E t \in Threads : RpcWait(t)
    \/ \E t \in Threads : FutureJoin(t)
    \/ \E t \in Threads : CatchDrop(t)
    \/ \E t \in Threads : CheckIn(t)
    \/ \E t \in Threads : LocalEval(t)
    \/ \E t \in Threads : SleepRetry(t)
    \/ ReconnectorWake
    \/ ReconnectorLock
    \/ Resolve
    \/ ConnectStart
    \/ ConnectWait
    \/ ConnectJoin
    \/ ReconnectorUnlock
    \/ \E o \in Threads \cup { Reconnector } : TaskFinish(o)
    \/ NetDown

SpecClient == ClientInit /\ [][ClientNext]_vars

\* The threads are scheduled: a thread that can take a step takes it, and a
\* thread waiting for the mutex gets it if it is free again and again.  The
\* network owes nothing: a task may stay "running" for ever.
ClientFairness ==
    /\ \A t \in Threads :
          /\ WF_vars(RpcWait(t))
          /\ WF_vars(FutureJoin(t))
          /\ WF_vars(CatchDrop(t))
          /\ WF_vars(LocalEval(t))
          /\ WF_vars(SleepRetry(t))
          /\ SF_vars(CheckOut(t))
          /\ SF_vars(CheckIn(t))
    /\ WF_vars(ReconnectorWake)
    /\ SF_vars(ReconnectorLock)
    /\ WF_vars(Resolve)
    /\ WF_vars(ConnectStart)
    /\ WF_vars(ConnectWait)
    /\ WF_vars(ConnectJoin)
    /\ WF_vars(ReconnectorUnlock)

SpecClientFair == ClientInit /\ [][ClientNext]_vars /\ ClientFairness

(***************************************************************************)
(* The client with servers that are reachable: every address resolves,     *)
(* every handshake is answered with the client's hash while a server has a *)
(* slot left, every RPC is answered in time.                               *)
(***************************************************************************)

\* resolver.resolve(query) returns
ResolveReachable ==
    /\ Resolve
    /\ rc.server <= NumServers => rc'.pc = "connect"

\* The task finishes with its result; a handshake is refused only by a
\* server that has no slot left
TaskReachable(o) ==
    /\ TaskFinish(o)
    /\ \/ task'[o] = "ok"
       \/ o = Reconnector /\ made >= MaxSockets

\* f.wait_for(500ms) of an RPC returns with the task done
RpcAnswered(t) ==
    /\ task[t] # "running"
    /\ RpcWait(t)

\* f.wait_for(500ms) of a handshake returns with the task done
ConnectAnswered ==
    /\ task[Reconnector] # "running"
    /\ ConnectWait

ReachableNext ==
    \/ \E t \in Threads, selfcheck \in BOOLEAN : Evaluate(t, selfcheck)
    \/ \E t \in Threads : CheckOut(t)
    \/ \E t \in Threads : RpcAnswered(t)
    \/ \E t \in Threads : CheckIn(t)
    \/ \E t \in Threads : LocalEval(t)
    \/ \E t \in Threads : SleepRetry(t)
    \/ ReconnectorWake
    \/ ReconnectorLock
    \/ ResolveReachable
    \/ ConnectStart
    \/ ConnectAnswered
    \/ ReconnectorUnlock
    \/ \E o \in Threads \cup { Reconnector } : TaskReachable(o)

\* The threads are scheduled as in ClientFairness, and the reachable
\* servers answer every task.
ReachableFairness ==
    /\ \A t \in Threads :
          /\ WF_vars(RpcAnswered(t))
          /\ WF_vars(LocalEval(t))
          /\ WF_vars(SleepRetry(t))
          /\ SF_vars(CheckOut(t))
          /\ SF_vars(CheckIn(t))
    /\ WF_vars(ReconnectorWake)
    /\ SF_vars(ReconnectorLock)
    /\ WF_vars(ResolveReachable)
    /\ WF_vars(ConnectStart)
    /\ WF_vars(ConnectAnswered)
    /\ WF_vars(ReconnectorUnlock)
    /\ \A o \in Threads \cup { Reconnector } : WF_vars(TaskReachable(o))

SpecReachable == ClientInit /\ [][ReachableNext]_vars /\ ReachableFairness

(***************************************************************************)
(* The server alone.                                                       *)
(***************************************************************************)

\* listen(portnum, hash) has bound its acceptor
ServerInit ==
    /\ srv = [NoServer EXCEPT !.pc = "accept"]
    /\ wire = NoWire
    /\ NoCacheCalls
    /\ ifs = NoIfstream
    /\ m_sockets = << >>
    /\ m_active_socket_count = 0
    /\ m_socket_mutex = "free"
    /\ m_local_initialized = TRUE
    /\ m_socket_initialized = FALSE
    /\ th = [t \in Threads |-> IdleThread]
    /\ rc = NoReconnector
    /\ task = [o \in Threads \cup { Reconnector } |-> "none"]
    /\ net = "up"
    /\ made = 0
    /\ CacheFresh(MIN_CACHE_COUNT)
    /\ disk = [exists |-> FALSE, bytes |-> << >>]
    /\ NoHistory
    /\ CodecIdle

ServerNext ==
    \/ \E c \in Conns : PeerConnect(c)
    \/ \E c \in Conns, how \in { "closed", "reset" } : PeerLeave(c, how)
    \/ \E c \in Conns : Accept(c)
    \/ Admit
    \/ \E c \in Conns : WorkerHandshake(c)
    \/ \E c \in Conns : WorkerServe(c)

SpecServer == ServerInit /\ [][ServerNext]_vars

(***************************************************************************)
(* The bitstream alone: values are pushed on an empty bitstream and the    *)
(* slices are read back.                                                   *)
(***************************************************************************)

BitsInit ==
    /\ cd_pc = "off"
    /\ cd_r = NoResult
    /\ cd_ce = NoEntry
    /\ cd_out = NoResult
    /\ BitsIdle
    /\ CacheFresh(MIN_CACHE_COUNT)
    /\ disk = [exists |-> FALSE, bytes |-> << >>]
    /\ NoHistory
    /\ ClientIdle

\* push_bits(count, value)
BitsPush ==
    /\ Len(pushed) < MaxPushes
    /\ \E count \in 1..WordBits, value \in Words, ub \in ShiftOutcomes :
          /\ stream' = WordPush(stream, count, value, ub)
          /\ pushed' = Append(pushed, [count |-> count, value |-> value,
                                       at |-> stream._bitcount])
    /\ readback' = NoRead
    /\ UNCHANGED << cd_pc, cd_r, cd_ce, cd_out, cacheVars, histVars, clientVars >>

\* read_bits(at, count) for the k-th push
BitsRead ==
    /\ \E k \in DOMAIN pushed, ub \in ShiftOutcomes :
          readback' = [k |-> k,
                       value |-> WordRead(stream, pushed[k].at, pushed[k].count, ub)]
    /\ UNCHANGED << stream, pushed >>
    /\ UNCHANGED << cd_pc, cd_r, cd_ce, cd_out, cacheVars, histVars, clientVars >>

BitsNext == BitsPush \/ BitsRead

SpecBits == BitsInit /\ [][BitsNext]_vars

(***************************************************************************)
(* The codec alone: a Netresult is compressed, then decoded.               *)
(***************************************************************************)

CodecInit ==
    /\ cd_pc = "input"
    /\ cd_r \in [policy : CodecPolicies,
                 policy_pass : {<< 0, 0, 0, 63 >>},
                 winrate : {<< 255, 255, 127, 63 >>}]
    /\ cd_ce = NoEntry
    /\ cd_out = NoResult
    /\ BitsIdle
    /\ CacheFresh(MIN_CACHE_COUNT)
    /\ disk = [exists |-> FALSE, bytes |-> << >>]
    /\ NoHistory
    /\ ClientIdle

\* CompressedEntry ce(result)
CodecCompress ==
    /\ cd_pc = "input"
    /\ cd_ce' = CompressedEntry(cd_r)
    /\ cd_pc' = "encoded"
    /\ UNCHANGED << cd_r, cd_out, stream, pushed, readback, cacheVars, histVars, clientVars >>

\* ce.get(result)
CodecGet ==
    /\ cd_pc = "encoded"
    /\ cd_out' = get(cd_ce)
    /\ cd_pc' = "decoded"
    /\ UNCHANGED << cd_r, cd_ce, stream, pushed, readback, cacheVars, histVars, clientVars >>

CodecNext == CodecCompress \/ CodecGet

SpecCodec == CodecInit /\ [][CodecNext]_vars

(***************************************************************************)
(* C2.  Codec round trip: decoding the CompressedEntry built from a policy *)
(* p with entries in [0,1] succeeds and yields p' of length N with         *)
(* floor(p[i]*2048) = floor(p'[i]*2048) and |p[i] - p'[i]| < 1/2048 for    *)
(* every i; policy_pass and winrate come back unchanged.                   *)
(***************************************************************************)
C2_RoundTrip ==
    cd_pc = "decoded" =>
        /\ cd_out.ok
        /\ Len(cd_out.policy) = NUM_INTERSECTIONS
        /\ \A i \in 1..NUM_INTERSECTIONS :
              /\ Quantum(cd_out.policy[i]) = Quantum(cd_r.policy[i])
              /\ cd_r.policy[i] - cd_out.policy[i] >= 0
              /\ cd_r.policy[i] - cd_out.policy[i] < SubQ
        /\ cd_out.policy_pass = cd_r.policy_pass
        /\ cd_out.winrate = cd_r.winrate

(***************************************************************************)
(* C1.  Once insert(h, r) has returned on a cache with                     *)
(* m_max_cache_size >= 1, a lookup(h) that starts afterwards, with no      *)
(* other insert or resize in between, reports a hit and returns            *)
(* policy_pass and winrate equal to r's and a policy whose quantum equals  *)
(* r's at every index.                                                     *)
(***************************************************************************)
SameResult(a, b) ==
    /\ a.policy_pass = b.policy_pass
    /\ a.winrate = b.winrate
    /\ Len(a.policy) = Len(b.policy)
    /\ \A i \in 1..Len(a.policy) : Quantum(a.policy[i]) = Quantum(b.policy[i])

LookupAfterInsert ==
    /\ lk.done
    /\ last.op = "insert"
    /\ lk.hash = last.hash
    /\ m_max_cache_size >= 1

\* C1 as stated: for every h and r
C1_LookupReturnsInserted ==
    LookupAfterInsert => lk.found /\ SameResult(lk.result, last.r)

\* C1 as amended: for every h that was not in the memory tier as
\* insert(h, r) was called (an insert of a fingerprint that is there leaves
\* the result stored before, and does not renew its place in the order).
C1_LookupReturnsFresh ==
    (LookupAfterInsert /\ last.fresh) =>
        lk.found /\ SameResult(lk.result, last.r)

\* insert(h, r) evicted the oldest entry of a full cache, and lookup(h)
\* found r.
C1_Witness ==
    /\ LookupAfterInsert
    /\ last.fresh
    /\ lk.found
    /\ lk.result = last.r
    /\ m_inserts > m_max_cache_size
    /\ Len(m_order) = m_max_cache_size

(***************************************************************************)
(* C3.  Memory-tier eviction is FIFO by insertion: after n inserts of      *)
(* pairwise distinct fingerprints into a new cache, with no resize in      *)
(* between, the memory tier holds exactly the last m_max_cache_size of     *)
(* them (all of them when n is smaller), in insertion order: with          *)
(* n = m_max_cache_size + k, the first k are absent.                       *)
(***************************************************************************)
Distinct(seq) == \A i, j \in DOMAIN seq : i # j => seq[i] # seq[j]

DistinctInserts ==
    /\ hist # << >>
    /\ hist[1] # Resized
    /\ Distinct(hist)

C3_FifoEviction ==
    DistinctInserts =>
        LET n == Len(hist)
            k == Max(n - m_max_cache_size, 0)
        IN  /\ m_order = SubSeq(hist, k + 1, n)
            /\ DOMAIN m_cache = { hist[i] : i \in (k + 1)..n }
            /\ \A i \in 1..k : hist[i] \notin DOMAIN m_cache

\* Two of the fingerprints inserted have been evicted
C3_Witness ==
    /\ DistinctInserts
    /\ Len(hist) = m_max_cache_size + 2
    /\ hist[1] \notin DOMAIN m_cache
    /\ hist[2] \notin DOMAIN m_cache

(***************************************************************************)
(* C4.  An insert of a fingerprint that is in the memory tier changes      *)
(* nothing of the stored data: the stored value, the eviction order, the   *)
(* file log and the file index stay as they are.                           *)
(***************************************************************************)
ReInsertStep ==
    /\ calls'.insert = calls.insert + 1
    /\ last'.op = "insert"
    /\ ~last'.fresh

StoredDataUnchanged ==
    /\ m_cache' = m_cache
    /\ m_order' = m_order
    /\ m_outfile' = m_outfile
    /\ disk' = disk
    /\ m_outfile_map' = m_outfile_map

\* C4 as stated: ... while the inserts statistic still increments
C4_ReInsertCounts ==
    [][ReInsertStep => StoredDataUnchanged /\ m_inserts' = m_inserts + 1]_vars

\* C4 as amended: ... and the inserts statistic does not change either
C4_ReInsertNoOp ==
    [][ReInsertStep => StoredDataUnchanged /\ m_inserts' = m_inserts]_vars

\* A fingerprint of the memory tier has been inserted again, with another
\* result, while the log was open for writing.
C4_Witness ==
    /\ last.op = "insert"
    /\ ~last.fresh
    /\ m_cache[last.hash].result # last.r
    /\ m_outfile.is_open
    /\ good(m_outfile)
    /\ flog # << >>

(***************************************************************************)
(* C5.  After any sequence of insert, resize and load_cachefile calls, no  *)
(* record whose fingerprint field is 0xffffffffffffffff has been appended  *)
(* to the log by insert; the insert of that fingerprint still puts it in   *)
(* the memory tier.                                                        *)
(***************************************************************************)
C5_SentinelNotLogged ==
    /\ \A i \in DOMAIN flog : flog[i].hash # Sentinel
    /\ (last.op = "insert" /\ last.hash = Sentinel /\ last.fresh)
           => /\ Sentinel \in DOMAIN m_cache
              /\ m_cache[Sentinel].result = last.r

\* The sentinel has been inserted while the log took records
C5_Witness ==
    /\ last.op = "insert"
    /\ last.hash = Sentinel
    /\ last.fresh
    /\ m_outfile.is_open
    /\ good(m_outfile)
    /\ flog # << >>
    /\ Sentinel \in DOMAIN m_cache

(***************************************************************************)
(* C6.  load_cachefile round trip: for a log written by the inserts of a   *)
(* run and opened again by load_cachefile, every fingerprint that is in    *)
(* the file index after the load is found by lookup, which yields the      *)
(* policy quanta, policy_pass and winrate of the record last appended for  *)
(* that fingerprint.                                                       *)
(***************************************************************************)
\* The result of the record last appended for hash
LastLogged(hash) ==
    LET is == { i \in DOMAIN flog : flog[i].hash = hash }
    IN  flog[CHOOSE i \in is : \A j \in is : j <= i].r

C6_LoadRoundTrip ==
    (/\ ~dmg.done
     /\ ld.done
     /\ lk.done
     /\ lk.hash \in DOMAIN m_outfile_map)
        => /\ \E i \in DOMAIN flog : flog[i].hash = lk.hash
           /\ lk.found
           /\ SameResult(lk.result, LastLogged(lk.hash))

(***************************************************************************)
(* C7.  Damage is confined to one guard-delimited block on load: when one  *)
(* record of the log is corrupted, or the tail of the file is cut off,     *)
(* load_cachefile still indexes every intact record that lies in another   *)
(* block than the damage.                                                  *)
(***************************************************************************)
\* The block of record i: the guards the writer put before it
Block(i) == Cardinality({ j \in 1..(i - 1) : flog[j].guard })

\* Record i has bytes in the damaged range
Hit(i) ==
    /\ flog[i].pos < dmg.at + dmg.len
    /\ dmg.at < flog[i].pos + flog[i].len

\* Record i is the last one appended for its fingerprint
Latest(i) == \A j \in DOMAIN flog : j > i => flog[j].hash # flog[i].hash

C7_DamageConfined ==
    (dmg.done /\ ld.done /\ dmg.at >= 4) =>
        \A i \in DOMAIN flog :
            (/\ ~Hit(i)
             /\ Latest(i)
             /\ \A j \in DOMAIN flog : Hit(j) => Block(j) # Block(i))
                => /\ flog[i].hash \in DOMAIN m_outfile_map
                   /\ m_outfile_map[flog[i].hash] = flog[i].pos

(***************************************************************************)
(* C8.  Every failing read-only load_cachefile (file missing, wrong magic, *)
(* no record parsed) returns false and leaves m_filename empty and no      *)
(* writer open.                                                            *)
(***************************************************************************)
C8_FailedLoadClearsName ==
    (ld.done /\ ld.read_only /\ ~ld.ret) =>
        /\ m_filename = ""
        /\ ~m_outfile.is_open

(***************************************************************************)
(* C9.  In every reachable state of the client, m_active_socket_count      *)
(* equals the number of sockets in the idle queue plus the number of       *)
(* sockets checked out by evaluate calls in flight, and it never goes      *)
(* negative (the assert before the decrement never fails).                 *)
(***************************************************************************)
C9_ActiveCount ==
    /\ m_active_socket_count = Len(m_sockets) + Cardinality(CheckedOut)
    /\ m_active_socket_count >= 0
    /\ \A t \in Threads : th[t].pc # "assert"

\* A socket has been dropped after a failure, the reconnector has opened a
\* new one, and a call holds a socket while another sits in the queue.
C9_Witness ==
    /\ net = "down"
    /\ made = MaxSockets
    /\ Len(m_sockets) = 1
    /\ Cardinality(CheckedOut) = 1
    /\ m_active_socket_count = 2

(***************************************************************************)
(* C11.  A call of evaluate with selfcheck true, or made while no server   *)
(* list is initialized, returns the output of the local evaluator, and no  *)
(* step of it touches the pool mutex, the idle queue or                    *)
(* m_active_socket_count or takes a socket, whatever the pool holds.       *)
(***************************************************************************)
C11_DirectLocal ==
    [][\A t \in Threads :
          (th'[t] # th[t] /\ th'[t].direct) =>
              /\ m_socket_mutex' = m_socket_mutex
              /\ m_sockets' = m_sockets
              /\ m_active_socket_count' = m_active_socket_count
              /\ th'[t].socket = 0
              /\ th'[t].pc \in { "local", "idle" }
              /\ th'[t].pc = "idle" => th'[t].via = "local"]_vars

\* A selfcheck call has returned the local output while the pool held a
\* socket and the mutex was free
C11_Witness ==
    \E t \in Threads :
        /\ th[t].selfcheck
        /\ th[t].direct
        /\ th[t].pc = "idle"
        /\ th[t].via = "local"
        /\ m_socket_initialized
        /\ m_sockets # << >>
        /\ m_socket_mutex = "free"

(***************************************************************************)
(* C12.  Server admission control: at no time do more than                 *)
(* cfg_num_threads worker threads serve connections; the accept loop shuts *)
(* down and closes a connection it decides on while cfg_num_threads        *)
(* workers are alive, nothing is ever written to a connection it dropped,  *)
(* and dropping leaves the workers as they are.                            *)
(***************************************************************************)
C12_Admission ==
    /\ [](Cardinality(Workers) <= cfg_num_threads)
    /\ [](\A c \in Conns : srv.conn[c].st = "rejected" => srv.conn[c].written = 0)
    /\ [][(srv.pc = "decide" /\ srv'.pc \in { "accept", "stopped" }
              /\ Cardinality(Workers) = cfg_num_threads) =>
             /\ srv'.conn[srv.socket].st = "rejected"
             /\ \A c \in Workers : srv'.conn[c] = srv.conn[c]]_vars

\* A connection has been dropped while cfg_num_threads workers were alive,
\* and a worker has answered a request
C12_Witness ==
    /\ srv.pc = "accept"
    /\ Cardinality(Workers) = cfg_num_threads
    /\ \E c \in Conns : srv.conn[c].st = "rejected"
    /\ \E c \in Workers : srv.conn[c].written > 1

(***************************************************************************)
(* C13.  A socket enters the idle pool, and m_active_socket_count is       *)
(* bumped for it, only after a handshake in which the server sent back the *)
(* client's hash; after a hash mismatch, an I/O error or a handshake       *)
(* timeout the socket is not put in the pool and m_active_socket_count     *)
(* stays as it is.                                                         *)
(***************************************************************************)
C13_PoolAfterHandshake ==
    [][/\ made' # made =>
             /\ rc.remote = my_hash
             /\ made' = made + 1
             /\ m_sockets' = Append(m_sockets, made')
             /\ m_active_socket_count' = m_active_socket_count + 1
       /\ ((rc.pc = "wait" /\ rc'.pc # "wait" /\ task[Reconnector] # "ok")
             \/ (rc.pc = "wait" /\ rc'.pc # "wait" /\ rc.remote # my_hash)
             \/ (rc.pc = "join" /\ rc'.pc # "join")) =>
             /\ made' = made
             /\ m_sockets' = m_sockets
             /\ m_active_socket_count' = m_active_socket_count]_vars

\* A socket has just been pooled after a handshake with the client's hash
C13_Witness ==
    /\ rc.pc = "connect"
    /\ rc.i >= 1
    /\ rc.remote = my_hash
    /\ m_sockets # << >>
    /\ m_sockets[Len(m_sockets)] = made
    /\ m_active_socket_count >= 1

(***************************************************************************)
(* C14.  A socket whose RPC timed out or hit an I/O error is not pushed    *)
(* back into the idle queue and no later call uses it: a socket enters the *)
(* queue only newly connected or from a call whose RPC succeeded, and a    *)
(* call takes its socket only from the front of the queue.  The handler of *)
(* the failure takes one off m_active_socket_count, which nothing else     *)
(* lowers, drops the socket, and goes on to the local evaluator when       *)
(* m_local_initialized.                                                    *)
(***************************************************************************)
Failing == { t \in Threads : th[t].pc \in { "join", "catch" } }

C14_FailedSocketDropped ==
    /\ [](\A t \in Failing :
            /\ th[t].socket # 0
            /\ th[t].socket \notin Range(m_sockets)
            /\ \A u \in Threads \ { t } : th[u].socket # th[t].socket)
    /\ [][/\ \A t \in Failing :
               /\ th[t].socket \notin Range(m_sockets')
               /\ \A u \in Threads \ { t } : th'[u].socket # th[t].socket
               /\ th'[t].socket \in { 0, th[t].socket }
          /\ \A s \in Range(m_sockets') \ Range(m_sockets) :
               \/ s = made' /\ made' = made + 1
               \/ \E t \in Threads : th[t].pc = "push" /\ th[t].socket = s
          /\ \A t \in Threads :
               (th'[t].socket # 0 /\ th'[t].socket # th[t].socket) =>
                   /\ m_sockets # << >>
                   /\ th'[t].socket = Head(m_sockets)
                   /\ th'[t].socket \notin Range(m_sockets')
          /\ \A t \in Threads :
               (th[t].pc = "catch" /\ th'[t].pc # "catch") =>
                   /\ m_active_socket_count' = m_active_socket_count - 1
                   /\ m_sockets' = m_sockets
                   /\ th'[t].socket = 0
                   /\ m_local_initialized => th'[t].pc = "local"
          /\ m_active_socket_count' < m_active_socket_count =>
               \E t \in Threads : th[t].pc = "catch" /\ th'[t].pc # "catch"
          /\ \A t \in Threads :
               (th[t].pc = "local" /\ th'[t] # th[t]) =>
                   th'[t].pc = "idle" /\ th'[t].via = "local"]_vars

\* The only call made so far lost its socket and is at the local evaluator
C14_Witness ==
    \E t \in Threads :
        /\ th[t].pc = "local"
        /\ ~th[t].direct
        /\ th[t].n = 1
        /\ th[t].socket = 0
        /\ \A u \in Threads \ { t } : th[u].n = 0
        /\ m_local_initialized
        /\ m_active_socket_count < made

(***************************************************************************)
(* C15.  Bitstream laws: after any push_bits(w, v) calls with w from 1 to  *)
(* the width of a word on an empty bitstream, size() is the sum of the     *)
(* widths, and read_bits at the start of the k-th push with its width      *)
(* gives its value masked to its low w bits.                               *)
(***************************************************************************)
RECURSIVE SumCounts(_)
SumCounts(ps) == IF ps = << >> THEN 0 ELSE ps[1].count + SumCounts(Tail(ps))

C15_BitstreamLaws ==
    /\ stream._bitcount = SumCounts(pushed)
    /\ readback.k # 0 =>
           readback.value = pushed[readback.k].value % Pow2(pushed[readback.k].count)

(***************************************************************************)
(* C16 as stated.  No record whose length byte n is 0xFF is ever appended  *)
(* to the log.                                                             *)
(***************************************************************************)
\* The length byte of a logged record: it follows the hash and two floats
LengthByte(rec) == rec.len - 17

C16_NoFFLength ==
    \A i \in DOMAIN flog : LengthByte(flog[i]) # 255

\* size_in_bytes of insert for a result
SizeInBytes(r) == (Len(CompressedEntry(r).compressed_policy) + 7) \div 8

(***************************************************************************)
(* C16 as the code has it.  No record whose compressed policy does not fit *)
(* in the one-byte length field is ever appended to the log: with the      *)
(* writer open and good and a hash other than the sentinel, insert of a    *)
(* hash not yet in memory appends the record when the compressed policy    *)
(* takes at most 0xFF bytes, a record with n = 0xFF included, and skips    *)
(* the file tier when it takes more.                                       *)
(***************************************************************************)
C16_LengthFitsByte ==
    /\ [](\A i \in DOMAIN flog :
            /\ LengthByte(flog[i]) <= 255
            /\ LengthByte(flog[i]) = SizeInBytes(flog[i].r))
    /\ [][(/\ calls'.insert = calls.insert + 1
           /\ last'.fresh
           /\ last'.hash # Sentinel
           /\ m_outfile.is_open
           /\ good(m_outfile)) =>
              IF SizeInBytes(last'.r) <= 255
              THEN /\ Len(flog') = Len(flog) + 1
                   /\ flog'[Len(flog')].r = last'.r
                   /\ flog'[Len(flog')].hash = last'.hash
              ELSE /\ flog' = flog
                   /\ m_outfile' = m_outfile
                   /\ m_outfile_map' = m_outfile_map]_vars

\* A record with n = 0xFF is in the log and the insert that followed, of a
\* compressed policy of 256 bytes, left the log alone
C16_Witness ==
    /\ Len(flog) = 1
    /\ LengthByte(flog[1]) = 255
    /\ calls.insert = 2
    /\ last.op = "insert"
    /\ last.fresh
    /\ last.hash # Sentinel
    /\ SizeInBytes(last.r) = 256
    /\ m_outfile.is_open
    /\ good(m_outfile)

(***************************************************************************)
(* C17.  After the guard written when the writer is opened, a guard is     *)
(* written after every GuardPeriod appended records: the k-th record       *)
(* appended since the writer was opened is followed by a guard exactly     *)
(* when k is a multiple of GuardPeriod, so that consecutive guards are     *)
(* never more and never fewer than GuardPeriod records apart.              *)
(***************************************************************************)
C17_GuardSpacing ==
    \A k \in DOMAIN flog : flog[k].guard <=> (k % GuardPeriod = 0)

(***************************************************************************)
(* C18.  The hashes of m_order are the keys of m_cache, no hash is in      *)
(* m_order twice, and the memory tier holds at most m_max_cache_size       *)
(* entries.                                                                *)
(***************************************************************************)
C18_MemoryTier ==
    /\ Range(m_order) = DOMAIN m_cache
    /\ Cardinality(Range(m_order)) = Len(m_order)
    /\ Len(m_order) <= m_max_cache_size

\* The memory tier is full, entries have left it, and a resize has run
C18_Witness ==
    /\ Len(m_order) = m_max_cache_size
    /\ m_inserts > Len(m_order)
    /\ calls.resize >= 1
    /\ m_cache # EmptyMap

(***************************************************************************)
(* C19.  The file index holds at most m_max_outfile_map_size entries,      *)
(* after any load_cachefile, insert or resize; so it does right after      *)
(* load_cachefile has indexed a file with more records than that.          *)
(***************************************************************************)
C19_FileIndexCap ==
    Cardinality(DOMAIN m_outfile_map) <= m_max_outfile_map_size

(***************************************************************************)
(* C20.  resize(size, reserve_filecache) budgets the tiers: with no file   *)
(* tier in use (none asked for, no writer open, an empty file index)       *)
(* m_max_cache_size = size and m_max_outfile_map_size = 0; with the file   *)
(* tier m_max_cache_size = MIN + (size - MIN) / 2 kept between MIN and MAX *)
(* and m_max_outfile_map_size = (size - m_max_cache_size) * ENTRY_SIZE /   *)
(* 32.  When resize returns both tiers are within their budgets and the    *)
(* memory tier holds the entries inserted last.                            *)
(***************************************************************************)
\* clamp(MIN + (size - MIN) / 2, MIN, MAX)
Clamped(size) ==
    LET half == MIN_CACHE_COUNT + (size - MIN_CACHE_COUNT) \div 2
    IN  IF half < MIN_CACHE_COUNT THEN MIN_CACHE_COUNT
        ELSE IF half > MAX_CACHE_COUNT THEN MAX_CACHE_COUNT
        ELSE half

C20_ResizeBudget ==
    [][calls'.resize = calls.resize + 1 =>
         LET size   == m_size'
             in_use == \/ last'.reserve
                       \/ m_outfile.is_open
                       \/ DOMAIN m_outfile_map # {}
             mem    == IF in_use THEN Clamped(size) ELSE size
             file   == IF in_use THEN ((size - mem) * ENTRY_SIZE) \div 32 ELSE 0
         IN  /\ m_max_cache_size' = mem
             /\ m_max_outfile_map_size' = file
             /\ Len(m_order') <= mem
             /\ Cardinality(DOMAIN m_outfile_map') <= file
             /\ DOMAIN m_cache' = Range(m_order')
             /\ Len(m_order') <= Len(m_order)
             /\ m_order' = SubSeq(m_order, Len(m_order) - Len(m_order') + 1,
                                  Len(m_order))
             /\ Len(m_order') = IF Len(m_order) > mem THEN mem ELSE Len(m_order)]_vars

(***************************************************************************)
(* C21. Once a write to the log has failed (the writer is open and not     *)
(* good), an insert appends nothing to the log and adds nothing to the     *)
(* file index, and still puts a fingerprint that is not cached into the    *)
(* memory tier and evicts the oldest entry of a full memory tier; a lookup *)
(* of the fingerprint just inserted finds the result in memory.            *)
(***************************************************************************)
WriterFailed == m_outfile.is_open /\ m_outfile.fail

InsertStep == calls'.insert = calls.insert + 1

C21_Insert ==
    (WriterFailed /\ InsertStep) =>
        /\ m_outfile' = m_outfile
        /\ disk' = disk
        /\ m_outfile_map' = m_outfile_map
        /\ flog' = flog
        /\ last'.fresh =>
              /\ m_order' = EvictOrder(Append(m_order, last'.hash),
                                        m_max_cache_size)
              /\ Len(m_order') <= Max(m_max_cache_size, Len(m_order))
              /\ DOMAIN m_cache' = Range(m_order')
              /\ m_max_cache_size >= 1 =>
                    /\ last'.hash \in DOMAIN m_cache'
                    /\ m_cache'[last'.hash].result = last'.r

C21_Lookup ==
    (WriterFailed /\ LookupAfterInsert /\ last.fresh) =>
        /\ lk.found
        /\ lk.result = last.r
        /\ last.hash \in DOMAIN m_cache

C21_FailedWriterMemoryOnly == [][C21_Insert]_vars /\ []C21_Lookup

\* A write failed, a later insert of a fingerprint that was not cached
\* evicted the oldest entry of the full memory tier and left the index
\* alone, and the lookup of it found the result.
C21_Witness ==
    /\ WriterFailed
    /\ LookupAfterInsert
    /\ last.fresh
    /\ last.hash \notin DOMAIN m_outfile_map
    /\ m_outfile_map # EmptyMap
    /\ m_inserts > m_max_cache_size
    /\ lk.found
    /\ lk.result = last.r

(***************************************************************************)
(* C22. File-index validity: in every reachable state, for every entry     *)
(* file_index[h] = p, a reader that opens the log file and seeks to p      *)
(* parses a complete record whose stored fingerprint is h and whose policy *)
(* decodes without error (also right after the insert that recorded p,     *)
(* before the writer is flushed, and after an insert whose write failed).  *)
(***************************************************************************)
ReadsBack(h, p) ==
    \A junk \in JunkAt(ReaderBytes, p) :
        LET record == ReadRecord(ReaderBytes, p, h, junk)
        IN  /\ ~record.throw
            /\ ~record.failed
            /\ get(record.entry).ok

C22_FileIndexValid ==
    \A h \in DOMAIN m_outfile_map : ReadsBack(h, m_outfile_map[h])

(***************************************************************************)
(* C23. The decoder accepts an entry exactly when the bits it consumed lie *)
(* within size - 8 .. size (on unsigned integers), and so every entry the  *)
(* encoder produced is accepted: by get() in memory, and by test_get() and *)
(* get() after the round trip through the byte-padded policy of a record.  *)
(***************************************************************************)
ThroughFile(ce) ==
    [ce EXCEPT !.compressed_policy = BytesToBits(PolicyBytes(ce.compressed_policy))]

C23_EncodedAccepted ==
    cd_pc = "decoded" =>
        /\ cd_out.ok
        /\ test_get(ThroughFile(cd_ce))
        /\ get(ThroughFile(cd_ce)).ok

(***************************************************************************)
(* C24. On a successful remote RPC the result the client returns carries   *)
(* the three parts of the response block the server wrote for that         *)
(* request: the N policy values, policy_pass (element N) and winrate       *)
(* (element N+1).                                                          *)
(***************************************************************************)
C24_ResultCarriesResponse ==
    \A k \in DOMAIN wire.got :
        /\ \A i \in 1..NUM_INTERSECTIONS : wire.got[k].first[i] = wire.wrote[k][i]
        /\ wire.got[k].first[NUM_INTERSECTIONS + 1]
              = wire.wrote[k][NUM_INTERSECTIONS + 1]
        /\ wire.got[k].second = wire.wrote[k][NUM_INTERSECTIONS + 2]

(***************************************************************************)
(* C25. Request framing stays aligned over the RPCs of one connection: the *)
(* client writes INPUT_CHANNELS * N bytes per request, as many as the      *)
(* worker reads, the k-th block the worker reads is the k-th block the     *)
(* client sent, and the k-th response is the answer to the k-th request.   *)
(***************************************************************************)
C25_FramingAligned ==
    /\ \A k \in DOMAIN wire.sent : Len(ToChars(wire.sent[k])) = RequestBytes
    /\ \A k \in DOMAIN wire.read : wire.read[k] = ToChars(wire.sent[k])
    /\ \A k \in DOMAIN wire.wrote :
          wire.wrote[k] = ResponseBlock(NetEval(ToFloats(ToChars(wire.sent[k]))))
    /\ Len(wire.c2s) \in { 0, RequestBytes }

(***************************************************************************)
(* C26. A failure on one server connection ends only the worker of that    *)
(* connection: whenever a peer has closed or reset its connection (right   *)
(* after accept, during the handshake, or in the request loop), the accept *)
(* loop goes on accepting and the process, with its other workers, lives.  *)
(***************************************************************************)
C26_FailureIsolated ==
    (\E c \in Conns : srv.conn[c].peer # "open") =>
        srv.pc \in { "accept", "decide" }

(***************************************************************************)
(* C27. The counter of live workers is decremented on every exit of a      *)
(* worker, a failure during the handshake included, so that while the      *)
(* server runs it equals the number of live workers (with none left it is  *)
(* 0 and cfg_num_threads connections are admitted again).                  *)
(***************************************************************************)
WorkerFailsInHandshake ==
    \E c \in Conns :
        /\ srv.conn[c].st = "handshake"
        /\ srv.conn[c].peer # "open"
        /\ srv.pc # "terminated"
        /\ srv'.pc = "terminated"

C27_CounterTracksWorkers ==
    /\ [](srv.pc \in { "accept", "decide" } =>
              srv.num_threads = Cardinality(Workers))
    /\ [][WorkerFailsInHandshake =>
              srv'.num_threads = srv.num_threads - 1]_vars

(***************************************************************************)
(* C28. In init_servers a failure to resolve the address of one server     *)
(* skips only the connections of that server: the servers listed after it  *)
(* are still resolved in the same call.                                    *)
(***************************************************************************)
ResolveFails ==
    /\ rc.pc = "resolve"
    /\ rc.server <= NumServers
    /\ rc'.pc \notin { "resolve", "connect" }

C28_ResolveSkipsOneServer ==
    [][ResolveFails => rc.server = NumServers]_vars

(***************************************************************************)
(* C29. NNCache mutual exclusion: while a thread is in an insert, a resize *)
(* or a load_cachefile, which modify m_cache, m_order and m_outfile_map,   *)
(* no other thread is in a lookup, an insert, a resize or a                *)
(* load_cachefile; only lookups overlap.                                   *)
(***************************************************************************)
C29_MutualExclusion ==
    \A t \in Threads :
        busy[t].pc \in Modifying =>
            \A u \in Threads \ { t } :
                busy[u].pc \notin { "lookup", "insert", "resize", "load" }

(***************************************************************************)
(* C30. Pool discipline: a socket leaves the idle queue only by a          *)
(* pop-front made with the mutex free for the caller, and comes back only  *)
(* by a push-back made under the mutex; a call in its RPC does not hold    *)
(* the mutex; at every moment a socket is in the queue once or held by one *)
(* call, never both and never twice.                                       *)
(***************************************************************************)
Holders(s) == { t \in Threads : th[t].socket = s }

InQueue(s) == { i \in DOMAIN m_sockets : m_sockets[i] = s }

C30_OneOwner ==
    \A s \in 1..made : Cardinality(Holders(s)) + Cardinality(InQueue(s)) <= 1

C30_PopAndPush ==
    /\ Len(m_sockets') < Len(m_sockets) =>
          /\ m_socket_mutex = "free"
          /\ m_sockets' = Tail(m_sockets)
          /\ \E t \in Threads :
                /\ th[t].pc = "lock"
                /\ th'[t].pc = "rpc"
                /\ th'[t].socket = Head(m_sockets)
    /\ Len(m_sockets') > Len(m_sockets) =>
          \/ /\ m_socket_mutex = "free"
             /\ \E t \in Threads :
                   /\ th[t].pc = "push"
                   /\ th'[t].socket = 0
                   /\ m_sockets' = Append(m_sockets, th[t].socket)
          \/ /\ m_socket_mutex = "reconnector"
             /\ m_sockets' = Append(m_sockets, made')
             /\ made' = made + 1
    /\ (Len(m_sockets') = Len(m_sockets)) => m_sockets' = m_sockets
    /\ \A t \in Threads :
          (th[t].pc # "rpc" /\ th'[t].pc = "rpc") => m_socket_mutex' = "free"

C30_PoolDiscipline == []C30_OneOwner /\ [][C30_PopAndPush]_vars

\* Two calls have their RPCs in flight at once, each on its own socket,
\* and a socket that came back from an RPC waits in the queue
C30_Witness ==
    /\ \A t \in Threads : th[t].pc = "rpc" /\ task[t] = "running"
    /\ \E t \in Threads : th[t].n > 1
    /\ Cardinality({ th[t].socket : t \in Threads }) = NumThreads
    /\ m_sockets # << >>
    /\ m_socket_mutex = "free"

(***************************************************************************)
(* C31. Reconnection liveness: with servers that are reachable and answer  *)
(* the handshake with the client's hash, whenever m_active_socket_count is *)
(* below cfg_num_threads the reconnector eventually brings it to at least  *)
(* cfg_num_threads, and a call that sleeps and retries (the pool was empty *)
(* and there is no local evaluator) eventually returns a remote result.    *)
(***************************************************************************)
C31_Reconnects ==
    /\ (m_socket_initialized /\ m_active_socket_count < cfg_num_threads)
          ~> (m_active_socket_count >= cfg_num_threads)
    /\ \A t \in Threads :
          (th[t].pc = "sleep" /\ ~m_local_initialized)
              ~> (th[t].pc = "idle" /\ th[t].via = "remote")

\* A call is sleeping before its retry, and the reconnector has filled the
\* pool again
C31_Witness ==
    /\ ~m_local_initialized
    /\ \E t \in Threads : th[t].pc = "sleep"
    /\ rc.pc = "sleep"
    /\ m_sockets # << >>
    /\ m_active_socket_count >= cfg_num_threads

(***************************************************************************)
(* C32. The connection pool never grows beyond its configured size: in     *)
(* every reachable state m_active_socket_count <= cfg_num_threads.         *)
(***************************************************************************)
C32_PoolBounded == m_active_socket_count <= cfg_num_threads

(***************************************************************************)
(* C33. The cache statistics stay exact under concurrency: when every      *)
(* lookup call has returned, m_lookups is the number of the calls, m_hits  *)
(* and m_file_hits are the numbers of the memory-tier and file-tier hits   *)
(* they returned, and m_hits + m_file_hits <= m_lookups.                   *)
(***************************************************************************)
C33_StatsExact ==
    (\A t \in Threads : busy[t].pc = "idle") =>
        /\ m_lookups = Returned("n", Threads)
        /\ m_hits = Returned("hits", Threads)
        /\ m_file_hits = Returned("file_hits", Threads)
        /\ m_hits + m_file_hits <= m_lookups

(***************************************************************************)
(* C34. load_cachefile terminates on every finite file, whatever its       *)
(* contents: every step of the call raises a variant that the length of    *)
(* the file bounds, the loops are left only with the stream at the end of  *)
(* the file, and every round of scanning to a guard, parsing until an      *)
(* error and rewinding begins beyond the position the round before it      *)
(* began at.                                                               *)
(***************************************************************************)
\* While the stream is good, twice the read position, plus one at the head
\* of the outer loop; beyond every such value once the end of the file is
\* met, in the order the loops are left
ScanVariant ==
    LET top == 2 * Len(disk.bytes) + 2
    IN  CASE ifs.pc = "closed" -> -1
          [] ifs.pc = "done"   -> top + 4
          [] ifs.pc = "tail"   -> top + 3
          [] ~ifs.good         -> top + (IF ifs.pc = "guard" THEN 2 ELSE 1)
          [] OTHER             -> 2 * ifs.pos + (IF ifs.pc = "guard" THEN 1 ELSE 0)

C34_ScanTerminates ==
    /\ [][ScanVariant' > ScanVariant /\ ScanVariant' <= 2 * Len(disk.bytes) + 6]_vars
    /\ [][ifs'.pc = "tail" => ~ifs'.good /\ ifs'.pos >= Len(disk'.bytes)]_vars
    /\ [][ifs'.rounds > ifs.rounds => ifs'.start > ifs.start]_vars

\* The call has returned after a round that ended in a rewind and a round
\* that began at the rewound position
C34_Witness ==
    /\ ifs.pc = "done"
    /\ ifs.rounds >= 3
    /\ ifs.start > 4
    /\ DOMAIN m_outfile_map # {}

(***************************************************************************)
(* C10.  With a local evaluator set up, once every remote socket fails     *)
(* (I/O error or timeout), an evaluate call that a thread starts           *)
(* eventually returns a result of the local evaluator.                     *)
(***************************************************************************)
C10_LocalFallback ==
    \A t \in Threads :
        (m_local_initialized /\ net = "down" /\ th[t].pc = "lock")
            ~> (th[t].pc = "idle" /\ th[t].via = "local")

=============================================================================
